---- MODULE Spec2Model ----
(***************************************************************************)
(* Model of the submission directory of one assignment of canvas-completer *)
(* and of the code that reads and writes it:                               *)
(*   - src/main.py: get_submission_status, show_work_menu (choice "c")     *)
(*   - src/canvas_completer/ai_detector.py: get_text_hash,                 *)
(*     load_cached_results, save_cached_results, needs_recheck,            *)
(*     run_ai_detection, run_detection_for_submission                      *)
(* The directory holds the markdown files draft.md, final.md and their     *)
(* humanized variants, and the detection caches ai_check*.json.            *)
(*                                                                         *)
(* Further sections model functions that work on no submission directory,  *)
(* each under a specification of its own that draws the arguments from a   *)
(* bounded set and applies the function:                                   *)
(*   - src/canvas_browser.py: sanitize_filename, html_to_markdown,         *)
(*     save_assignment_data, save_course_data, save_session, main, and the *)
(*     loops of try_headless_sync and sync_all_data                        *)
(*   - src/main.py: main, run_sync                                         *)
(*   - src/canvas_completer/content_extractor.py: identify_content_type,   *)
(*     parse_caption_file, extract_pdf_text, extract_zip_contents,         *)
(*     process_module_item, fetch_and_process_modules                      *)
(*   - src/canvas_completer/ai_detector.py: run_ai_detection with a list   *)
(*     of services                                                         *)
(* The files a sync and a login write are the variable data, the run of a  *)
(* command is the variable cli.                                            *)
(* Strings are sequences of one-character strings.                         *)
(***************************************************************************)
EXTENDS Integers, Sequences, FiniteSets, TLC

\* ------------------------------------------------------------------ values

\* Texts are numbered 0..MaxContent; text 0 is the empty string "".
MaxContent == 1
Contents == 0..MaxContent

\* md[f] of a file that does not exist (Path.exists() is false).
NoFile == -1

\* Python's None where a score is expected.
None == -1

\* The score that separates ready_to_submit from ai_high.
AI_THRESHOLD == 30

\* Detection scores a service may report (0..100 in the program).
Scores == {15, 30}

MdNames == {"draft.md", "final.md", "final_humanized.md", "draft_humanized.md"}
SourceNames == {"draft.md", "final.md"}
CacheNames == {"ai_check.json", "ai_check_final_humanized.json",
               "ai_check_draft_humanized.json"}

\* A file on disk that holds JSON: absent, present but not parseable, or
\* present with one parsed document (doc is a sequence of length <= 1).
AbsentFile == [state |-> "absent", doc |-> <<>>]
CorruptFile == [state |-> "corrupt", doc |-> <<>>]
JsonFile(d) == [state |-> "json", doc |-> <<d>>]

VARIABLES
    dirExists,  \* the submission directory exists
    md,         \* md[f]: the text of markdown file f, or NoFile
    cache,      \* cache[c]: the JSON file c
    last,       \* the last operation of the program and what it returned
    call,       \* the call of a function that works on no submission
                \* directory: its name, its argument and what it returned
    sync,       \* the sync of the courses: what Canvas and the disk will
                \* do, where the loops are, and what has been saved
    data,       \* the files that a sync and a login write: data[path] is
                \* the file at path; a path outside DOMAIN data has no file
    cli         \* the run of a command: its arguments, what the login and
                \* the sync will do, where the run is, the calls made so
                \* far and the exit status

vars == <<dirExists, md, cache, last, call, sync, data, cli>>
disk == <<dirExists, md, cache>>

\* The state that the operations on the submission directory leave alone.
elsewhere == <<call, sync, data, cli>>

\* No such function has been called.
NoCall == [fn |-> "none", arg |-> <<>>, ret |-> <<>>]

\* No command is running. exit is the exit status, NoExit while there is
\* none; returned is what run_sync returned ("nothing" before it returns).
NoExit == -1
NoCli == [pc |-> "none", program |-> "", cmd |-> "", force_browser |-> FALSE,
          headless |-> "", logged_in |-> FALSE, login |-> FALSE, syncing |-> "",
          umask |-> "", calls |-> <<>>, returned |-> "nothing", exit |-> NoExit]

\* No file has been written.
NoFiles == <<>>

\* No sync has been started. auth and listing tell whether the saved
\* session will be accepted and the courses will be listed, data_dir
\* whether DATA_DIR exists before the sync; summary tells whether
\* upcoming_assignments.json has been written, ret what the sync returned.
NoSync == [pc |-> "none", courses |-> <<>>, course |-> 0, module |-> 0,
           saved_courses |-> {}, saved_assignments |-> {}, fetched |-> {},
           saved_modules |-> {}, raised |-> <<>>,
           auth |-> TRUE, listing |-> TRUE, data_dir |-> TRUE,
           summary |-> FALSE, ret |-> "nothing"]

\* No operation of the program has run since the directory last changed
\* from outside.
Idle == [op |-> "none", force |-> FALSE, ret |-> <<>>, invoked |-> FALSE,
         wrote |-> {}]

\* ------------------------------------------------------- ai_detector.py

\* hashlib.md5(text.encode()).hexdigest(): a digest of the text. Distinct
\* texts of the model have distinct digests (md5 collisions are out of scope).
get_text_hash(text) == [md5 |-> text]

\* Mutant: a file that does not parse yields an empty document, not None.
load_cached_results_EmptyOnCorrupt(c) ==
    IF c.state # "absent"
    THEN (IF c.state = "json" THEN c.doc
          ELSE <<[text_hash |-> {}, file_hashes |-> {}, services |-> <<>>]>>)
    ELSE <<>>

\* load_cached_results on the file ai_check.json: the parsed document, or
\* None (the empty sequence) when the file is missing or json.load raises.
load_cached_results(c) ==
    IF c.state # "absent"
    THEN (IF c.state = "json" THEN c.doc ELSE <<>>)
    ELSE <<>>

\* Mutant: only the presence of a cache is tested, no hash is compared.
needs_recheck_CacheOnly(m, c) ==
    load_cached_results(c) = <<>>

\* needs_recheck: m is the markdown files, c the file ai_check.json.
\* file_hashes is a set of <<filename, hash>> pairs with distinct filenames,
\* so cached.get("file_hashes", {}).get(filename) != current_hash is
\* "<<filename, current_hash>> is not in it".
needs_recheck(m, c) ==
    LET cached == load_cached_results(c) IN
    IF cached = <<>>
    THEN TRUE
    ELSE \E filename \in {"draft.md", "final.md"} :
            /\ m[filename] # NoFile
            /\ <<filename, get_text_hash(m[filename])>> \notin cached[1].file_hashes

\* What check_zerogpt_api can return: a score with status "success", or no
\* score with an error status (its own try/except turns exceptions into one).
ApiOutcomes ==
    {[score |-> s, status |-> "success"] : s \in Scores}
        \cup {[score |-> None, status |-> "could not parse response"]}

\* run_ai_detection(text) with the default services ["zerogpt"]; api is what
\* check_zerogpt_api returned. checked_at and text_length are not modelled.
run_ai_detection(text, api) ==
    [text_hash |-> {get_text_hash(text)},
     file_hashes |-> {},
     services |-> <<[name |-> "zerogpt", score |-> api.score, status |-> api.status]>>]

\* The file run_detection_for_submission checks: final.md if it exists,
\* else draft.md, else none ("").
ActiveSource(m) ==
    IF m["final.md"] # NoFile THEN "final.md"
    ELSE IF m["draft.md"] # NoFile THEN "draft.md"
    ELSE ""

\* save_cached_results: json.dump(results) over the whole file.
save_cached_results(results) == JsonFile(results)

\* What run_detection_for_submission returns: an error dict, or a results
\* document (doc holds it).
ErrorResult == [error |-> TRUE, doc |-> <<>>]
DetectionResult(doc) == [error |-> FALSE, doc |-> doc]

\* run_detection_for_submission(submission_dir, force): m is the markdown
\* files, c the file ai_check.json, api what the detection service answers if
\* it is asked. The value is what the call returns (ret), the file
\* ai_check.json after it (file), whether a detection service was called
\* (invoked) and whether ai_check.json was written (wrote).
run_detection_for_submission(m, c, force, api) ==
    IF ~force /\ ~needs_recheck(m, c)
    THEN [ret |-> DetectionResult(load_cached_results(c)), file |-> c,
          invoked |-> FALSE, wrote |-> FALSE]
    ELSE LET filename == ActiveSource(m) IN
         IF filename = ""
         THEN [ret |-> ErrorResult, file |-> c, invoked |-> FALSE, wrote |-> FALSE]
         ELSE LET content == m[filename]
                  results == [run_ai_detection(content, api) EXCEPT
                                !.file_hashes = {<<filename, get_text_hash(content)>>}]
              IN [ret |-> DetectionResult(<<results>>),
                  file |-> save_cached_results(results),
                  invoked |-> TRUE, wrote |-> TRUE]

\* ---------------------------------------------------------------- main.py

Min(S) == CHOOSE x \in S : \A y \in S : x <= y

\* for service, data in cached.get("services", {}).items():
\*     if data.get("score") is not None: score = data.get("score"); break
FirstScore(services) ==
    LET hits == {i \in 1..Len(services) : services[i].score # None}
    IN IF hits = {} THEN None ELSE services[Min(hits)].score

\* The score read from one cache file: None when the file is missing or
\* cannot be parsed (the bare except).
CachedScore(c) ==
    IF c.state = "json" THEN FirstScore(c.doc[1].services) ELSE None

\* f"ai_check_{humanized_name.replace('.md', '')}.json"
HumanizedCacheName(humanized_name) ==
    IF humanized_name = "final_humanized.md"
    THEN "ai_check_final_humanized.json"
    ELSE "ai_check_draft_humanized.json"

\* Mutant: the loop has no break after a humanized file without a score, so
\* draft_humanized.md is consulted when final_humanized.md has no score.
HumanizedScore_NoBreak(m, ch) ==
    LET score(f) == IF m[f] = NoFile THEN None
                    ELSE CachedScore(ch[HumanizedCacheName(f)])
    IN IF ch["ai_check.json"].state = "absent" THEN None
       ELSE IF score("final_humanized.md") # None THEN score("final_humanized.md")
       ELSE score("draft_humanized.md")

\* The humanized score: the first humanized file that exists is the only one
\* looked at (the loop breaks after it, with or without a score). "import
\* json" is executed only inside the branch that reads ai_check.json, which
\* makes json a local name: when ai_check.json does not exist, json.load in
\* this loop raises UnboundLocalError, the bare except swallows it, and the
\* score stays None.
HumanizedScore(m, ch) ==
    LET first == IF m["final_humanized.md"] # NoFile THEN "final_humanized.md"
                 ELSE IF m["draft_humanized.md"] # NoFile THEN "draft_humanized.md"
                 ELSE ""
    IN IF first = "" THEN None
       ELSE IF ch["ai_check.json"].state = "absent" THEN None
       ELSE CachedScore(ch[HumanizedCacheName(first)])

\* submission_dir.iterdir(): the names of the files in the directory.
FileNames(m, ch) ==
    {f \in MdNames : m[f] # NoFile} \cup {c \in CacheNames : ch[c].state # "absent"}

\* The value get_submission_status returns: (status, files, scores), with
\* files and scores sequences of length <= 1 (empty for None).
StatusResult(status, files, scores) ==
    [status |-> status, files |-> files, scores |-> scores]

\* Mutant: the "elif files" branch is lost, so a directory without draft.md
\* always counts as not started.
StatusWithoutFinal_NoWorkStarted(file_names) ==
    IF "draft.md" \in file_names
    THEN StatusResult("draft_in_progress", <<file_names>>, <<>>)
    ELSE StatusResult("not_started", <<>>, <<>>)

\* The branch for a directory without final.md.
StatusWithoutFinal(file_names) ==
    IF "draft.md" \in file_names
    THEN StatusResult("draft_in_progress", <<file_names>>, <<>>)
    ELSE IF file_names # {}
    THEN StatusResult("work_started", <<file_names>>, <<>>)
    ELSE StatusResult("not_started", <<>>, <<>>)

\* Mutant: the humanized score is looked at before the test for a missing
\* main score.
StatusFromScores_HumanizedFirst(ai_score, humanized_score) ==
    IF humanized_score # None
    THEN (IF humanized_score < AI_THRESHOLD THEN "ready_to_submit" ELSE "ai_high")
    ELSE IF ai_score = None THEN "final_ready"
    ELSE IF ai_score < AI_THRESHOLD THEN "ready_to_submit"
    ELSE "ai_high"

\* Mutant: the main score is compared with <= instead of <.
StatusFromScores_AtMost(ai_score, humanized_score) ==
    IF ai_score = None THEN "final_ready"
    ELSE IF humanized_score # None
    THEN (IF humanized_score < AI_THRESHOLD THEN "ready_to_submit" ELSE "ai_high")
    ELSE IF ai_score <= AI_THRESHOLD THEN "ready_to_submit"
    ELSE "ai_high"

\* "Determine status based on scores".
StatusFromScores(ai_score, humanized_score) ==
    IF ai_score = None THEN "final_ready"
    ELSE IF humanized_score # None
    THEN (IF humanized_score < AI_THRESHOLD THEN "ready_to_submit" ELSE "ai_high")
    ELSE IF ai_score < AI_THRESHOLD THEN "ready_to_submit"
    ELSE "ai_high"

get_submission_status(d, m, ch) ==
    LET file_names == FileNames(m, ch)
        ai_score == CachedScore(ch["ai_check.json"])
        humanized_score == HumanizedScore(m, ch)
        scores == [ai_score |-> ai_score, humanized_score |-> humanized_score]
    IN IF ~d THEN StatusResult("not_started", <<>>, <<>>)
       ELSE IF "final.md" \notin file_names
       THEN StatusWithoutFinal(file_names)
       ELSE StatusResult(StatusFromScores(ai_score, humanized_score),
                         <<file_names>>, <<scores>>)

Max(S) == CHOOSE x \in S : \A y \in S : x >= y

\* show_work_menu, choice "c": highest_score starts at 0 and is raised to
\* every score that is not None.
HighestScore(services) ==
    Max({0} \cup {services[i].score : i \in {j \in 1..Len(services) : services[j].score # None}})

\* f"{base_name}_humanized.md" with base_name = source_file.replace(".md", "")
HumanizedName(source_file) ==
    IF source_file = "final.md" THEN "final_humanized.md" ELSE "draft_humanized.md"

\* What humanize_text can return: a failure, or success with the rewritten
\* text (stripped output of the rewriting tool, possibly empty).
HumanizeOutcomes ==
    {[success |-> FALSE, rewritten |-> 0]}
        \cup {[success |-> TRUE, rewritten |-> t] : t \in Contents}

\* The document written to ai_check_<base>_humanized.json: checked_at and
\* services only (no text_hash, no file_hashes).
HumanizedCacheDoc(new_result) ==
    [text_hash |-> {}, file_hashes |-> {},
     services |-> <<[name |-> "zerogpt", score |-> new_result.score,
                     status |-> new_result.status]>>]

\* ---------------------------------------------------------------- actions

\* No submission directory yet (the state before the work menu first opens).
NoDirectory ==
    /\ dirExists = FALSE
    /\ md = [f \in MdNames |-> NoFile]
    /\ cache = [c \in CacheNames |-> AbsentFile]
    /\ last = Idle

Init ==
    /\ NoDirectory
    /\ sync = NoSync
    /\ data = NoFiles
    /\ cli = NoCli
    /\ call = NoCall

\* The submission directory is created (by the user or the coding agent).
MkDir ==
    /\ ~dirExists
    /\ dirExists' = TRUE
    /\ UNCHANGED <<md, cache, elsewhere>>
    /\ last' = Idle

\* draft.md or final.md is created or edited from outside the program: the
\* coding agent is told to save its work there.
WriteFile ==
    \E f \in SourceNames, text \in Contents :
        /\ dirExists
        /\ md[f] # text
        /\ md' = [md EXCEPT ![f] = text]
        /\ UNCHANGED <<dirExists, cache, elsewhere>>
        /\ last' = Idle

\* A file of the directory is deleted from outside the program.
DeleteFile ==
    \/ \E f \in MdNames :
        /\ md[f] # NoFile
        /\ md' = [md EXCEPT ![f] = NoFile]
        /\ UNCHANGED <<dirExists, cache, elsewhere>>
        /\ last' = Idle
    \/ \E c \in CacheNames :
        /\ cache[c].state # "absent"
        /\ cache' = [cache EXCEPT ![c] = AbsentFile]
        /\ UNCHANGED <<dirExists, md, elsewhere>>
        /\ last' = Idle

\* ai_check.json is damaged from outside the program: it no longer parses.
CorruptCache ==
    /\ dirExists
    /\ cache["ai_check.json"].state # "corrupt"
    /\ cache' = [cache EXCEPT !["ai_check.json"] = CorruptFile]
    /\ UNCHANGED <<dirExists, md, elsewhere>>
    /\ last' = Idle

\* Mutant: the call creates the submission directory when it is missing.
GetSubmissionStatus_Mkdir ==
    /\ last' = [op |-> "get_submission_status", force |-> FALSE,
                ret |-> get_submission_status(dirExists, md, cache),
                invoked |-> FALSE, wrote |-> {}]
    /\ dirExists' = TRUE
    /\ UNCHANGED <<md, cache, elsewhere>>

\* A call of get_submission_status(assignment).
GetSubmissionStatus ==
    /\ last' = [op |-> "get_submission_status", force |-> FALSE,
                ret |-> get_submission_status(dirExists, md, cache),
                invoked |-> FALSE, wrote |-> {}]
    /\ UNCHANGED <<dirExists, md, cache, elsewhere>>

\* A call of needs_recheck(submission_dir).
NeedsRecheck ==
    /\ last' = [op |-> "needs_recheck", force |-> FALSE,
                ret |-> needs_recheck(md, cache["ai_check.json"]),
                invoked |-> FALSE, wrote |-> {}]
    /\ UNCHANGED <<dirExists, md, cache, elsewhere>>

\* A call of load_cached_results(submission_dir).
LoadCachedResults ==
    /\ last' = [op |-> "load_cached_results", force |-> FALSE,
                ret |-> load_cached_results(cache["ai_check.json"]),
                invoked |-> FALSE, wrote |-> {}]
    /\ UNCHANGED <<dirExists, md, cache, elsewhere>>

\* A call of run_detection_for_submission(submission_dir, force).
RunDetectionForSubmission ==
    \E force \in BOOLEAN, api \in ApiOutcomes :
        LET run == run_detection_for_submission(md, cache["ai_check.json"], force, api)
        IN /\ cache' = [cache EXCEPT !["ai_check.json"] = run.file]
           /\ last' = [op |-> "run_detection_for_submission", force |-> force,
                       ret |-> run.ret, invoked |-> run.invoked,
                       wrote |-> IF run.wrote THEN {"ai_check.json"} ELSE {}]
           /\ UNCHANGED <<dirExists, md, elsewhere>>

\* show_work_menu, choice "c" with the API check: check the active source
\* file and, when the score is high and the user accepts, humanize it and
\* re-check the humanized text. api is the answer to the first check, result
\* the value of humanize_text, new_result the answer to the re-check.
ShowWorkMenuCheck ==
    LET source_file == ActiveSource(md)
        text == IF source_file = "" THEN 0 ELSE md[source_file]
        humanized_filename == HumanizedName(source_file)
        cache_filename == HumanizedCacheName(humanized_filename)
        done(wrote) == [op |-> "show_work_menu", force |-> TRUE, ret |-> <<>>,
                        invoked |-> text # 0, wrote |-> wrote]
        OnlyChecked(checked) ==
            /\ md' = md
            /\ cache' = checked
            /\ last' = done({"ai_check.json"})
    IN /\ UNCHANGED <<dirExists, elsewhere>>
       /\ IF text = 0
          THEN /\ UNCHANGED <<md, cache>>
               /\ last' = done({})
          ELSE \E api \in ApiOutcomes :
            LET run == run_detection_for_submission(md, cache["ai_check.json"], TRUE, api)
                checked == [cache EXCEPT !["ai_check.json"] = run.file]
            IN IF HighestScore(run.ret.doc[1].services) < AI_THRESHOLD
               THEN OnlyChecked(checked)
               ELSE \E humanize_choice \in {"0", "1"} :
                 IF humanize_choice = "0"
                 THEN OnlyChecked(checked)
                 ELSE \E result \in HumanizeOutcomes :
                   IF ~result.success
                   THEN OnlyChecked(checked)
                   ELSE \E new_result \in ApiOutcomes :
                     /\ md' = [md EXCEPT ![humanized_filename] = result.rewritten]
                     /\ IF new_result.score # None
                        THEN /\ cache' = [checked EXCEPT ![cache_filename] =
                                            JsonFile(HumanizedCacheDoc(new_result))]
                             /\ last' = done({"ai_check.json", humanized_filename,
                                              cache_filename})
                        ELSE /\ cache' = checked
                             /\ last' = done({"ai_check.json", humanized_filename})

\* Results a caller may hand to save_cached_results: a run_ai_detection
\* document with any file_hashes map over the source files.
FileHashMaps ==
    {fh \in SUBSET (SourceNames \X {get_text_hash(t) : t \in Contents}) :
        \A p, q \in fh : p[1] = q[1] => p = q}

SavedResults ==
    {[run_ai_detection(t, api) EXCEPT !.file_hashes = fh] :
        t \in Contents, api \in ApiOutcomes, fh \in FileHashMaps}

\* A direct call of save_cached_results(submission_dir, results); open()
\* raises when the directory does not exist.
SaveCachedResults ==
    \E results \in SavedResults :
        /\ cache' = [cache EXCEPT !["ai_check.json"] =
                        IF dirExists THEN save_cached_results(results) ELSE @]
        /\ last' = [op |-> "save_cached_results", force |-> FALSE,
                    ret |-> IF dirExists THEN <<results>> ELSE <<>>,
                    invoked |-> FALSE,
                    wrote |-> IF dirExists THEN {"ai_check.json"} ELSE {}]
        /\ UNCHANGED <<dirExists, md, elsewhere>>

Next ==
    \/ MkDir
    \/ WriteFile
    \/ DeleteFile
    \/ CorruptCache
    \/ GetSubmissionStatus
    \/ NeedsRecheck
    \/ LoadCachedResults
    \/ RunDetectionForSubmission
    \/ ShowWorkMenuCheck

Spec == Init /\ [][Next]_vars

\* The cache module on its own, with save_cached_results called directly (as
\* its tests do) and no humanized files.
NextCache ==
    \/ MkDir
    \/ WriteFile
    \/ DeleteFile
    \/ CorruptCache
    \/ SaveCachedResults
    \/ NeedsRecheck
    \/ LoadCachedResults
    \/ RunDetectionForSubmission

SpecCache == Init /\ [][NextCache]_vars

\* ------------------------------------------------------------------ claims

StatusCalled == last.op = "get_submission_status"
FinalPresent == md["final.md"] # NoFile
AiCheck == cache["ai_check.json"]

\* The cache file c parses and holds a service with a score.
HasScore(c) ==
    /\ c.state = "json"
    /\ \E i \in 1..Len(c.doc[1].services) : c.doc[1].services[i].score # None

\* The humanized file f exists and its own cache file holds a score.
HumanizedHasScore(f) ==
    md[f] # NoFile /\ HasScore(cache[HumanizedCacheName(f)])

\* The state a score decides: below 30 ready_to_submit, otherwise ai_high.
Decides(score) == IF score < 30 THEN "ready_to_submit" ELSE "ai_high"

\* C1: with final.md present, a cached score counts only if it was computed
\* for final.md's current content (text_hash of ai_check.json is the hash of
\* that content); otherwise get_submission_status returns final_ready.
C1_ScoreIsForCurrentFinal ==
    (/\ StatusCalled
     /\ FinalPresent
     /\ ~(/\ HasScore(AiCheck)
          /\ get_text_hash(md["final.md"]) \in AiCheck.doc[1].text_hash))
        => last.ret.status = "final_ready"

\* C2: with final.md absent, get_submission_status returns not_started for a
\* missing or empty directory, draft_in_progress when draft.md is present and
\* work_started when only other files are present.
C2_StatusWithoutFinal ==
    (StatusCalled /\ ~FinalPresent) =>
        last.ret.status =
            IF \/ ~dirExists
               \/ /\ \A f \in MdNames : md[f] = NoFile
                  /\ \A c \in CacheNames : cache[c].state = "absent"
            THEN "not_started"
            ELSE IF md["draft.md"] # NoFile THEN "draft_in_progress"
            ELSE "work_started"

\* A call on a directory that holds nothing but a cache file.
C2_Witness ==
    /\ StatusCalled
    /\ \A f \in MdNames : md[f] = NoFile
    /\ AiCheck.state # "absent"
    /\ last.ret.status = "work_started"

\* C3: with final.md present and ai_check.json missing, unreadable or without
\* any score, get_submission_status returns final_ready, whatever else is in
\* the directory.
C3_NoScoreIsFinalReady ==
    (StatusCalled /\ FinalPresent /\ ~HasScore(AiCheck))
        => last.ret.status = "final_ready"

\* A call with an unreadable ai_check.json next to a humanized file that has
\* its own cached score.
C3_Witness ==
    /\ StatusCalled
    /\ FinalPresent
    /\ AiCheck.state = "corrupt"
    /\ HumanizedHasScore("final_humanized.md")
    /\ last.ret.status = "final_ready"

\* C4 as stated: with a main score, the humanized variant that has its own
\* cached score decides alone, final_humanized.md first and draft_humanized.md
\* when final_humanized.md has no cached score.
C4_DecidingVariant ==
    IF HumanizedHasScore("final_humanized.md") THEN "final_humanized.md"
    ELSE IF HumanizedHasScore("draft_humanized.md") THEN "draft_humanized.md"
    ELSE ""

C4_VariantWithScoreDecides ==
    (StatusCalled /\ FinalPresent /\ HasScore(AiCheck) /\ C4_DecidingVariant # "")
        => last.ret.status =
            Decides(CachedScore(cache[HumanizedCacheName(C4_DecidingVariant)]))

\* C4 (amended): with a main score, the first humanized file that exists
\* (final_humanized.md, else draft_humanized.md) decides alone when it has its
\* own cached score; when final_humanized.md exists without a cached score,
\* draft_humanized.md is not consulted and the main score decides.
C4_FirstExisting ==
    IF md["final_humanized.md"] # NoFile THEN "final_humanized.md"
    ELSE IF md["draft_humanized.md"] # NoFile THEN "draft_humanized.md"
    ELSE ""

C4_FirstExistingVariantDecides ==
    (StatusCalled /\ FinalPresent /\ HasScore(AiCheck)) =>
        /\ (C4_FirstExisting # "" /\ HumanizedHasScore(C4_FirstExisting))
            => last.ret.status =
                Decides(CachedScore(cache[HumanizedCacheName(C4_FirstExisting)]))
        /\ (/\ md["final_humanized.md"] # NoFile
            /\ ~HumanizedHasScore("final_humanized.md"))
            => last.ret.status = Decides(CachedScore(AiCheck))

\* A call where final_humanized.md has no cached score, draft_humanized.md
\* has one, and the state returned is not the one draft_humanized.md's score
\* would give.
C4_Witness ==
    /\ StatusCalled
    /\ FinalPresent
    /\ HasScore(AiCheck)
    /\ md["final_humanized.md"] # NoFile
    /\ ~HumanizedHasScore("final_humanized.md")
    /\ HumanizedHasScore("draft_humanized.md")
    /\ last.ret.status #
        Decides(CachedScore(cache["ai_check_draft_humanized.json"]))

\* C5: with a main score and no humanized variant that has a cached score,
\* get_submission_status returns ready_to_submit exactly when the main score
\* is below 30 and ai_high otherwise.
C5_MainScoreDecides ==
    (/\ StatusCalled
     /\ FinalPresent
     /\ HasScore(AiCheck)
     /\ ~HumanizedHasScore("final_humanized.md")
     /\ ~HumanizedHasScore("draft_humanized.md"))
        => /\ last.ret.status = "ready_to_submit" <=> CachedScore(AiCheck) < 30
           /\ last.ret.status = "ai_high" <=> CachedScore(AiCheck) >= 30

\* A call with a main score of exactly 30 and no humanized score.
C5_Witness ==
    /\ StatusCalled
    /\ FinalPresent
    /\ HasScore(AiCheck)
    /\ CachedScore(AiCheck) = 30
    /\ ~HumanizedHasScore("final_humanized.md")
    /\ ~HumanizedHasScore("draft_humanized.md")
    /\ last.ret.status = "ai_high"

\* C6: a call of get_submission_status leaves the directory and every file in
\* it as they were, and a call that directly follows another call returns the
\* same state, files and scores.
C6_StatusIsReadOnly ==
    [][last'.op = "get_submission_status" =>
        /\ dirExists' = dirExists
        /\ md' = md
        /\ cache' = cache
        /\ (StatusCalled => last'.ret = last.ret)]_vars

\* A call has returned a state derived from scores.
C6_Witness ==
    /\ StatusCalled
    /\ FinalPresent
    /\ HasScore(AiCheck)
    /\ last.ret.status = "ai_high"

\* C7: needs_recheck returns true exactly when no cache can be loaded or the
\* hash recorded for the active source file (final.md if present, else
\* draft.md) differs from the hash of that file's content; with both files
\* present draft.md has no influence.
C7_OnlyActiveSourceDecides ==
    last.op = "needs_recheck" =>
        last.ret =
            (\/ load_cached_results(AiCheck) = <<>>
             \/ /\ ActiveSource(md) # ""
                /\ <<ActiveSource(md), get_text_hash(md[ActiveSource(md)])>>
                    \notin AiCheck.doc[1].file_hashes)

\* C8: a call of run_detection_for_submission with force=False that directly
\* follows a run that wrote the cache (no file changed in between) calls no
\* detection service, does not write ai_check.json and returns the cached
\* results.
C8_SecondRunUsesCache ==
    [][(/\ last.op = "run_detection_for_submission"
        /\ last.wrote # {}
        /\ last'.op = "run_detection_for_submission"
        /\ ~last'.force)
        => /\ ~last'.invoked
           /\ last'.wrote = {}
           /\ cache' = cache
           /\ last'.ret = DetectionResult(AiCheck.doc)]_vars

\* The source files that exist all have their current hash in file_hashes.
C9_Matches(results) ==
    /\ \E f \in SourceNames : md[f] # NoFile
    /\ \A f \in SourceNames :
        md[f] # NoFile => <<f, get_text_hash(md[f])>> \in results.file_hashes

\* C9: needs_recheck is true on an empty directory; a needs_recheck call that
\* directly follows save_cached_results of results whose file_hashes match the
\* files of the directory returns false; and once needs_recheck has returned
\* false, an edit of final.md makes needs_recheck true again. (A directory
\* with draft.md and final.md whose cache records final.md alone is the case
\* of C7.)
C9_FreshSavedEdited ==
    /\ [](( /\ last.op = "needs_recheck"
            /\ \A f \in MdNames : md[f] = NoFile
            /\ \A c \in CacheNames : cache[c].state = "absent") => last.ret = TRUE)
    /\ [][(/\ last.op = "save_cached_results"
           /\ last.ret # <<>>
           /\ C9_Matches(last.ret[1])
           /\ last'.op = "needs_recheck") => last'.ret = FALSE]_vars
    /\ [][(/\ last.op = "needs_recheck"
           /\ last.ret = FALSE
           /\ md["final.md"] # NoFile
           /\ md'["final.md"] # NoFile
           /\ md'["final.md"] # md["final.md"])
           => needs_recheck(md', cache'["ai_check.json"])]_vars

\* needs_recheck has returned true for a final.md whose recorded hash is the
\* hash of another text: the call after the edit.
C9_Witness ==
    /\ last.op = "needs_recheck"
    /\ last.ret = TRUE
    /\ FinalPresent
    /\ AiCheck.state = "json"
    /\ \E t \in Contents :
        /\ t # md["final.md"]
        /\ <<"final.md", get_text_hash(t)>> \in AiCheck.doc[1].file_hashes

\* C10: an ai_check.json that does not parse is a cache miss:
\* load_cached_results returns None, needs_recheck returns true, and
\* get_submission_status with final.md present returns final_ready.
C10_CorruptCacheIsMiss ==
    AiCheck.state = "corrupt" =>
        /\ last.op = "load_cached_results" => last.ret = <<>>
        /\ last.op = "needs_recheck" => last.ret = TRUE
        /\ (StatusCalled /\ FinalPresent) => last.ret.status = "final_ready"

\* get_submission_status was called with final.md next to an unreadable
\* ai_check.json.
C10_Witness ==
    /\ AiCheck.state = "corrupt"
    /\ StatusCalled
    /\ FinalPresent
    /\ last.ret.status = "final_ready"

\* C11: run_detection_for_submission checks exactly one file, final.md if it
\* exists and otherwise draft.md; the cache it writes has text_hash equal to
\* the hash of that file's content and one file_hashes entry, for that
\* filename, with the same hash; when neither file exists it returns the
\* error result and does not write ai_check.json.
\* (md is not changed by the call, so md is also what the call has read.)
C11_ChecksActiveSourceOrFails ==
    last.op = "run_detection_for_submission" =>
        LET filename == ActiveSource(md) IN
        IF filename = ""
        THEN last.ret = ErrorResult /\ last.wrote = {}
        ELSE last.wrote # {} =>
                LET hash == get_text_hash(md[filename]) IN
                /\ last.invoked
                /\ AiCheck.state = "json"
                /\ AiCheck.doc[1].text_hash = {hash}
                /\ AiCheck.doc[1].file_hashes = {<<filename, hash>>}

\* ================================================================ strings
\* A Python str or bytes value is a sequence of one-character strings.

\* s[:n] for n >= 0.
Take(s, n) == SubSeq(s, 1, IF n < Len(s) THEN n ELSE Len(s))

\* s[n:] for n >= 0.
Drop(s, n) == SubSeq(s, n + 1, Len(s))

\* s.startswith(p)
StartsWith(s, p) == Len(p) <= Len(s) /\ SubSeq(s, 1, Len(p)) = p

\* s.endswith(p)
EndsWith(s, p) == Len(p) <= Len(s) /\ SubSeq(s, Len(s) - Len(p) + 1, Len(s)) = p

\* p in s
Contains(s, p) == \E i \in 1..(Len(s) - Len(p) + 1) : SubSeq(s, i, i + Len(p) - 1) = p

\* The strings over an alphabet of length at most n.
RECURSIVE StringsUpTo(_, _)
StringsUpTo(alphabet, n) ==
    IF n = 0 THEN {<<>>}
    ELSE LET shorter == StringsUpTo(alphabet, n - 1) IN
         shorter \cup {Append(s, ch) : s \in shorter, ch \in alphabet}

\* ch * n
Repeat(ch, n) == [i \in 1..n |-> ch]

\* The characters the regular expression \s matches (the ones of the model).
Whitespace == {" ", "\t", "\n"}

\* s.lstrip(chars) and s.rstrip(chars), chars a set of characters: what
\* lies from the first, or up to the last, character that is not in chars.
LStrip(s, chars) ==
    LET kept == {i \in 1..Len(s) : s[i] \notin chars} IN
    IF kept = {} THEN <<>> ELSE SubSeq(s, Min(kept), Len(s))

RStrip(s, chars) ==
    LET kept == {i \in 1..Len(s) : s[i] \notin chars} IN
    IF kept = {} THEN <<>> ELSE SubSeq(s, 1, Max(kept))

\* s.strip(chars)
Strip(s, chars) == RStrip(LStrip(s, chars), chars)

\* A call of function fn on arg that has not returned, and the same call
\* after it returned value.
Pending(fn, arg) == [fn |-> fn, arg |-> arg, ret |-> <<>>]
Returned(c, value) == [c EXCEPT !.ret = <<value>>]

\* ============================================== canvas_browser.py: sanitize
\* The characters sanitize_filename removes: [<>:"/\\|?*].
ProblemChars == {"<", ">", ":", "\"", "/", "\\", "|", "?", "*"}

\* name[:100]
FilenameLimit == 100

\* re.sub(r'\s+', '_', name): every maximal run of whitespace becomes one "_".
\* The first character of a run becomes "_", the others of the run go.
SubWhitespace(name) ==
    LET sub == [i \in 1..Len(name) |->
                  IF name[i] \notin Whitespace THEN name[i]
                  ELSE IF i > 1 /\ name[i - 1] \in Whitespace THEN ""
                  ELSE "_"]
    IN SelectSeq(sub, LAMBDA ch : ch # "")

\* sanitize_filename(name), statement by statement.
sanitize_filename(name) ==
    LET removed == SelectSeq(name, LAMBDA ch : ch \notin ProblemChars)
        joined == SubWhitespace(removed)
        stripped == Strip(joined, {".", "_"})
    IN Take(stripped, FilenameLimit)

\* The names of the model: a head and a tail of at most MaxAffix characters
\* around a run of the letter "a" that is empty or brings the name close to
\* the limit of sanitize_filename.
MaxAffix == 2
NameChars == {"a", " ", ".", "_", "/"}
Fills == {0} \cup ((FilenameLimit - MaxAffix - 1)..FilenameLimit)
Names ==
    {head \o Repeat("a", n) \o tail :
        head \in StringsUpTo(NameChars, MaxAffix),
        n \in Fills,
        tail \in StringsUpTo(NameChars, MaxAffix)}

InitSanitize ==
    /\ NoDirectory
    /\ sync = NoSync
    /\ data = NoFiles
    /\ cli = NoCli
    /\ call \in {Pending("sanitize_filename", name) : name \in Names}

SanitizeFilename ==
    /\ call.fn = "sanitize_filename"
    /\ call.ret = <<>>
    /\ call' = Returned(call, sanitize_filename(call.arg))
    /\ UNCHANGED <<dirExists, md, cache, last, sync, data, cli>>

NextSanitize == SanitizeFilename

SpecSanitize == InitSanitize /\ [][NextSanitize]_vars

\* C12: for every input string s, sanitize_filename(s) contains none of the
\* characters < > : " / \ | ? *, has length at most 100, and neither begins
\* nor ends with "." or "_", also for inputs longer than 100 characters.
C12_SafeBoundedTrimmed ==
    (call.fn = "sanitize_filename" /\ call.ret # <<>>) =>
        LET r == call.ret[1] IN
        /\ \A i \in 1..Len(r) : r[i] \notin ProblemChars
        /\ Len(r) <= FilenameLimit
        /\ r # <<>> => (r[1] \notin {".", "_"} /\ r[Len(r)] \notin {".", "_"})

\* ================================= content_extractor.py: identify_content_type
\* str.lower() on the letters A-Z.
UpperCase == <<"A", "B", "C", "D", "E", "F", "G", "H", "I", "J", "K", "L", "M", "N", "O", "P", "Q", "R", "S", "T", "U", "V", "W", "X", "Y", "Z">>
LowerCase == <<"a", "b", "c", "d", "e", "f", "g", "h", "i", "j", "k", "l", "m", "n", "o", "p", "q", "r", "s", "t", "u", "v", "w", "x", "y", "z">>
Lower(s) ==
    [i \in 1..Len(s) |->
        IF \E k \in 1..Len(UpperCase) : UpperCase[k] = s[i]
        THEN LowerCase[CHOOSE k \in 1..Len(UpperCase) : UpperCase[k] = s[i]]
        ELSE s[i]]

\* s.find(ch): the first index (from 0) of the character, or -1.
Find(s, ch) ==
    LET at == {i \in 1..Len(s) : s[i] = ch} IN
    IF at = {} THEN -1 ELSE Min(at) - 1

\* What a call can hand back: a value, or an exception that it raises
\* (raised is the text of the exception, empty when there is none).
Value(v) == [raised |-> <<>>, value |-> v]
Raises(exception) == [raised |-> exception, value |-> <<>>]

\* urllib.parse.urlparse(url).netloc, as urlsplit computes it: a scheme is
\* split off at the first ":" when only scheme characters precede it, and
\* the network location is what follows "//" up to the first "/", "?" or "#".
\* A location with "[" and no "]" (or the reverse) raises ValueError.
SchemeChars ==
    {UpperCase[k] : k \in 1..Len(UpperCase)}
        \cup {LowerCase[k] : k \in 1..Len(LowerCase)}
        \cup {"0", "1", "2", "3", "4", "5", "6", "7", "8", "9", "+", "-", "."}

AfterScheme(url) ==
    LET i == Find(url, ":") IN
    IF i > 0 /\ url[1] \notin {"0", "1", "2", "3", "4", "5", "6", "7", "8", "9", "+", "-", "."}
             /\ \A k \in 1..i : url[k] \in SchemeChars
    THEN Drop(url, i + 1)
    ELSE url

urlparse_netloc(url) ==
    LET rest == AfterScheme(url) IN
    IF Take(rest, 2) = <<"/", "/">>
    THEN LET ends == {i \in 3..Len(rest) : rest[i] \in {"/", "?", "#"}}
             netloc == SubSeq(rest, 3, IF ends = {} THEN Len(rest) ELSE Min(ends) - 1)
         IN IF (Find(netloc, "[") >= 0) # (Find(netloc, "]") >= 0)
            THEN Raises(<<"V", "a", "l", "u", "e", "E", "r", "r", "o", "r">>)
            ELSE Value(netloc)
    ELSE Value(<<>>)

\* identify_content_type(url): the tag, or the exception of urlparse.
identify_content_type(url) ==
    LET url_lower == Lower(url)
        parsed == urlparse_netloc(url)
    IN IF parsed.raised # <<>> THEN Raises(parsed.raised)
       ELSE IF Contains(url_lower, <<"y", "o", "u", "t", "u", "b", "e", ".", "c", "o", "m">>) \/ Contains(url_lower, <<"y", "o", "u", "t", "u", ".", "b", "e">>)
            THEN Value("youtube")
       ELSE IF Contains(url_lower, <<"v", "i", "m", "e", "o", ".", "c", "o", "m">>) THEN Value("vimeo")
       ELSE IF Contains(url_lower, <<"p", "a", "n", "o", "p", "t", "o">>) THEN Value("panopto")
       ELSE IF EndsWith(url_lower, <<".", "p", "d", "f">>) THEN Value("pdf")
       ELSE IF EndsWith(url_lower, <<".", "d", "o", "c">>) \/ EndsWith(url_lower, <<".", "d", "o", "c", "x">>)
            THEN Value("word")
       ELSE IF EndsWith(url_lower, <<".", "p", "p", "t">>) \/ EndsWith(url_lower, <<".", "p", "p", "t", "x">>)
            THEN Value("powerpoint")
       ELSE Value("webpage")

\* The URLs of the model: up to MaxParts parts put one after the other.
MaxParts == 4
UrlParts ==
    {<<"h", "t", "t", "p", "s", ":", "/", "/">>, <<"e", "x", "a", "m", "p", "l", "e", ".", "c", "o", "m">>, <<"Y", "o", "u", "T", "u", "b", "e", ".", "c", "o", "m">>, <<"y", "o", "u", "t", "u", ".", "b", "e">>, <<"v", "i", "m", "e", "o", ".", "c", "o", "m">>,
     <<"p", "a", "n", "o", "p", "t", "o">>, <<"/">>, <<"?">>, <<".", "p", "d", "f">>, <<".", "D", "O", "C">>, <<".", "p", "p", "t">>, <<"x">>, <<"[">>}

RECURSIVE Joined(_, _)
Joined(parts, n) ==
    IF n = 0 THEN {<<>>}
    ELSE LET shorter == Joined(parts, n - 1) IN
         shorter \cup {s \o part : s \in shorter, part \in parts}

Urls == Joined(UrlParts, MaxParts)

InitContentType ==
    /\ NoDirectory
    /\ sync = NoSync
    /\ data = NoFiles
    /\ cli = NoCli
    /\ call \in {Pending("identify_content_type", url) : url \in Urls}

IdentifyContentType ==
    /\ call.fn = "identify_content_type"
    /\ call.ret = <<>>
    /\ call' = Returned(call, identify_content_type(call.arg))
    /\ UNCHANGED <<dirExists, md, cache, last, sync, data, cli>>

NextContentType == IdentifyContentType

SpecContentType == InitContentType /\ [][NextContentType]_vars

\* The network location (host) of a URL that urlparse accepts, in lower case.
Host(url) == Lower(urlparse_netloc(url).value)

PlatformInHost(url, tag) ==
    CASE tag = "youtube" -> Contains(Host(url), <<"y", "o", "u", "t", "u", "b", "e", ".", "c", "o", "m">>)
                              \/ Contains(Host(url), <<"y", "o", "u", "t", "u", ".", "b", "e">>)
      [] tag = "vimeo" -> Contains(Host(url), <<"v", "i", "m", "e", "o", ".", "c", "o", "m">>)
      [] tag = "panopto" -> Contains(Host(url), <<"p", "a", "n", "o", "p", "t", "o">>)

HasExtension(url, tag) ==
    CASE tag = "pdf" -> EndsWith(Lower(url), <<".", "p", "d", "f">>)
      [] tag = "word" -> EndsWith(Lower(url), <<".", "d", "o", "c">>) \/ EndsWith(Lower(url), <<".", "d", "o", "c", "x">>)
      [] tag = "powerpoint" -> EndsWith(Lower(url), <<".", "p", "p", "t">>) \/ EndsWith(Lower(url), <<".", "p", "p", "t", "x">>)

VideoTags == {"youtube", "vimeo", "panopto"}
DocumentTags == {"pdf", "word", "powerpoint"}

\* C20: identify_content_type is total over all URL strings and returns one
\* tag of youtube, vimeo, panopto, pdf, word, powerpoint, webpage; a video tag
\* only when the platform name occurs in the host of the URL, a document tag
\* only when no video platform is in the host and the URL ends with the
\* extension, and webpage in every other case.
C20_TotalAndDecidedByHost ==
    (call.fn = "identify_content_type" /\ call.ret # <<>>) =>
        LET url == call.arg
            r == call.ret[1]
        IN /\ r.raised = <<>>
           /\ r.value \in VideoTags \cup DocumentTags \cup {"webpage"}
           /\ r.value \in VideoTags => PlatformInHost(url, r.value)
           /\ r.value \in DocumentTags =>
                 /\ \A tag \in VideoTags : ~PlatformInHost(url, tag)
                 /\ HasExtension(url, r.value)
           /\ ((\A tag \in VideoTags : ~PlatformInHost(url, tag))
                 /\ (\A tag \in DocumentTags : ~HasExtension(url, tag)))
                 => r.value = "webpage"

\* ==================================== content_extractor.py: parse_caption_file
\* s.split(ch): the pieces of s between the occurrences of the character.
RECURSIVE Split(_, _)
Split(s, ch) ==
    LET i == Find(s, ch) IN
    IF i = -1 THEN <<s>> ELSE <<Take(s, i)>> \o Split(Drop(s, i + 1), ch)

\* sep.join(pieces)
RECURSIVE Join(_, _)
Join(pieces, sep) ==
    IF pieces = <<>> THEN <<>>
    ELSE IF Len(pieces) = 1 THEN pieces[1]
    ELSE pieces[1] \o sep \o Join(Tail(pieces), sep)

\* re.sub(r'<[^>]+>', '', s): from left to right, a "<" with a first ">"
\* after it and at least one character in between goes with all up to
\* that ">"; any other character stays.
RECURSIVE SubTags(_)
SubTags(s) ==
    IF s = <<>> THEN <<>>
    ELSE IF s[1] = "<" /\ Find(Tail(s), ">") >= 1
         THEN SubTags(Drop(s, Find(Tail(s), ">") + 2))
         ELSE <<s[1]>> \o SubTags(Tail(s))

Digits == {"0", "1", "2", "3", "4", "5", "6", "7", "8", "9"}

\* re.match(r'^\d+$', line)
IsNumber(line) == line # <<>> /\ \A i \in 1..Len(line) : line[i] \in Digits

\* re.match(r'^[a-f0-9-]+$', line)
IsCueId(line) ==
    /\ line # <<>>
    /\ \A i \in 1..Len(line) : line[i] \in Digits \cup {"a", "b", "c", "d", "e", "f", "-"}

\* One pass of the loop of parse_caption_file: what the line adds to
\* text_lines, the empty string when it adds nothing.
CaptionLine(raw) ==
    LET line == Strip(raw, Whitespace) IN
    IF StartsWith(line, <<"W", "E", "B", "V", "T", "T">>) \/ StartsWith(line, <<"N", "O", "T", "E">>) THEN <<>>
    ELSE IF Contains(line, <<"-", "-", ">">>) THEN <<>>
    ELSE IF IsNumber(line) \/ IsCueId(line) THEN <<>>
    ELSE IF line = <<>> THEN <<>>
    ELSE SubTags(line)

parse_caption_file(content) ==
    LET lines == Split(content, "\n")
        text_lines == SelectSeq([i \in 1..Len(lines) |-> CaptionLine(lines[i])],
                                LAMBDA line : line # <<>>)
    IN Join(text_lines, <<" ">>)

\* The caption files of the model: up to MaxCaptionParts parts put one after
\* the other, and the example file of the specification.
MaxCaptionParts == 4
CaptionParts == {<<"\n">>, <<" ">>, <<"x">>, <<"1">>, <<"<">>, <<">">>, <<"<", "b", ">">>, <<"-", "-">>, <<"N", "O", "T", "E">>}
ExampleCaptions == <<"W", "E", "B", "V", "T", "T", "\n", "\n", "1", "\n", "0", "0", ":", "0", "0", ":", "0", "0", ".", "0", "0", "0", " ", "-", "-", ">", " ", "0", "0", ":", "0", "0", ":", "0", "2", ".", "0", "0", "0", "\n", "H", "e", "l", "l", "o", " ", "<", "b", ">", "w", "o", "r", "l", "d", "<", "/", "b", ">", "\n">>
CaptionFiles == Joined(CaptionParts, MaxCaptionParts) \cup {ExampleCaptions}

InitCaption ==
    /\ NoDirectory
    /\ sync = NoSync
    /\ data = NoFiles
    /\ cli = NoCli
    /\ call \in {Pending("parse_caption_file", content) : content \in CaptionFiles}

ParseCaptionFile ==
    /\ call.fn = "parse_caption_file"
    /\ call.ret = <<>>
    /\ call' = Returned(call, parse_caption_file(call.arg))
    /\ UNCHANGED <<dirExists, md, cache, last, sync, data, cli>>

NextCaption == ParseCaptionFile

SpecCaption == InitCaption /\ [][NextCaption]_vars

\* The text has a substring of the form <...>: a "<", then one or more
\* characters other than ">", then a ">".
HasTag(s) ==
    \E i \in 1..Len(s), j \in 1..Len(s) :
        /\ i + 1 < j
        /\ s[i] = "<"
        /\ s[j] = ">"
        /\ \A k \in (i + 1)..(j - 1) : s[k] # ">"

\* C18: for every input text the output of parse_caption_file contains no
\* "-->", is not a pure-digit cue number and contains no angle-bracket tag,
\* also when markup is nested or split across lines; for the example file
\* of the specification the output is "Hello world".
C18_NoArrowNumberTag ==
    (call.fn = "parse_caption_file" /\ call.ret # <<>>) =>
        LET out == call.ret[1] IN
        /\ ~Contains(out, <<"-", "-", ">">>)
        /\ ~IsNumber(out)
        /\ ~HasTag(out)
        /\ call.arg = ExampleCaptions => out = <<"H", "e", "l", "l", "o", " ", "w", "o", "r", "l", "d">>

\* ===================================== canvas_browser.py: html_to_markdown
\* text[i], or "" outside the text.
At(text, i) == IF i \in 1..Len(text) THEN text[i] ELSE ""

\* text[m-1:n] for m >= 1: the characters at the indices m..n that exist.
Slice(text, m, n) == SubSeq(text, m, IF n < Len(text) THEN n ELSE Len(text))

\* The first index at or after from where p occurs in text, 0 if nowhere.
IndexFrom(text, p, from) ==
    LET at == {i \in from..(Len(text) - Len(p) + 1) : Slice(text, i, i + Len(p) - 1) = p}
    IN IF at = {} THEN 0 ELSE Min(at)

\* What re finds when it tries a pattern at one index: nothing, or a match
\* that ends at index to (inclusive) with its groups.
NoMatch == [found |-> FALSE, to |-> 0, groups |-> <<>>]
Match(to, groups) == [found |-> TRUE, to |-> to, groups |-> groups]

\* <name[^>]*>(.*?)</name> with re.DOTALL tried at index i: the opening tag
\* runs to the first ">", the group to the first closing tag after it.
MatchPair(text, i, name) ==
    LET open == <<"<">> \o name
        close == <<"<", "/">> \o name \o <<">">>
        gt == IndexFrom(text, <<">">>, i + Len(open))
        end == IF gt = 0 THEN 0 ELSE IndexFrom(text, close, gt + 1)
    IN IF Slice(text, i, i + Len(open) - 1) = open /\ gt # 0 /\ end # 0
       THEN Match(end + Len(close) - 1, <<Slice(text, gt + 1, end - 1)>>)
       ELSE NoMatch

\* <a[^>]*href="([^"]*)"[^>]*>(.*?)</a> with re.DOTALL tried at index i. The
\* greedy [^>]* prefers the last href=" that no ">" separates from "<a" and
\* that lets the rest match: the address runs to the next quote, the tag to
\* the first ">" after that quote, the text to the first "</a>" after it.
LinkAt(text, h) ==
    LET quote == IndexFrom(text, <<"\"">>, h + 6)
        gt == IF quote = 0 THEN 0 ELSE IndexFrom(text, <<">">>, quote + 1)
        end == IF gt = 0 THEN 0 ELSE IndexFrom(text, <<"<", "/", "a", ">">>, gt + 1)
    IN IF end # 0
       THEN Match(end + 3, <<Slice(text, h + 6, quote - 1), Slice(text, gt + 1, end - 1)>>)
       ELSE NoMatch

MatchLink(text, i) ==
    LET hrefs == {h \in (i + 2)..Len(text) :
                    /\ Slice(text, h, h + 5) = <<"h", "r", "e", "f", "=", "\"">>
                    /\ \A k \in (i + 2)..(h - 1) : text[k] # ">"
                    /\ LinkAt(text, h).found}
    IN IF Slice(text, i, i + 1) = <<"<", "a">> /\ hrefs # {}
       THEN LinkAt(text, Max(hrefs))
       ELSE NoMatch

\* </?word[^>]*> tried at index i, for the words "ol", "ul" and "div".
MatchTag(text, i, words) ==
    LET n == IF At(text, i + 1) = "/" THEN i + 2 ELSE i + 1
        named == {w \in words : Slice(text, n, n + Len(w) - 1) = w}
        gt == IF named = {} THEN 0
              ELSE IndexFrom(text, <<">">>, n + Len(CHOOSE w \in named : TRUE))
    IN IF At(text, i) = "<" /\ gt # 0 THEN Match(gt, <<>>) ELSE NoMatch

\* <br\s*/?> tried at index i.
MatchBr(text, i) ==
    LET rest == {k \in (i + 3)..Len(text) : text[k] \notin Whitespace}
        n == IF rest = {} THEN 0 ELSE Min(rest)
        gt == IF At(text, n) = "/" THEN n + 1 ELSE n
    IN IF Slice(text, i, i + 2) = <<"<", "b", "r">> /\ n # 0 /\ At(text, gt) = ">"
       THEN Match(gt, <<>>)
       ELSE NoMatch

\* The substitutions of html_to_markdown before the removal of the remaining
\* tags, in the order of the code: the pattern and what replaces a match
\* (pre, then the text group if there is one, then post).
Pair(name, pre, post) == [kind |-> "pair", name |-> name, pre |-> pre, post |-> post]
Rules ==
    << Pair(<<"h", "1">>, <<"#", " ">>, <<"\n">>),
       Pair(<<"h", "2">>, <<"#", "#", " ">>, <<"\n">>),
       Pair(<<"h", "3">>, <<"#", "#", "#", " ">>, <<"\n">>),
       Pair(<<"h", "4">>, <<"#", "#", "#", "#", " ">>, <<"\n">>),
       Pair(<<"s", "t", "r", "o", "n", "g">>, <<"*", "*">>, <<"*", "*">>),
       Pair(<<"b">>, <<"*", "*">>, <<"*", "*">>),
       Pair(<<"e", "m">>, <<"*">>, <<"*">>),
       Pair(<<"i">>, <<"*">>, <<"*">>),
       [kind |-> "link"],
       Pair(<<"l", "i">>, <<"-", " ">>, <<"\n">>),
       [kind |-> "tag", words |-> {<<"o", "l">>, <<"u", "l">>}],
       Pair(<<"p">>, <<>>, <<"\n", "\n">>),
       [kind |-> "br"],
       [kind |-> "tag", words |-> {<<"d", "i", "v">>}] >>

MatchRule(rule, text, i) ==
    CASE rule.kind = "pair" -> MatchPair(text, i, rule.name)
      [] rule.kind = "link" -> MatchLink(text, i)
      [] rule.kind = "tag" -> MatchTag(text, i, rule.words)
      [] rule.kind = "br" -> MatchBr(text, i)

Replacement(rule, groups) ==
    CASE rule.kind = "pair" -> rule.pre \o groups[1] \o rule.post
      [] rule.kind = "link" -> <<"[">> \o groups[2] \o <<"]", "(">> \o groups[1] \o <<")">>
      [] rule.kind = "tag" -> <<"\n">>
      [] rule.kind = "br" -> <<"\n">>

\* re.sub(pattern, replacement, text): the leftmost match is replaced and
\* the search goes on behind it.
RECURSIVE SubRule(_, _)
SubRule(rule, text) ==
    LET starts == {i \in 1..Len(text) : MatchRule(rule, text, i).found} IN
    IF starts = {} THEN text
    ELSE LET i == Min(starts)
             m == MatchRule(rule, text, i)
         IN Take(text, i - 1) \o Replacement(rule, m.groups)
                \o SubRule(rule, Drop(text, m.to))

\* The first n substitutions of Rules, one after the other.
RECURSIVE SubRules(_, _)
SubRules(text, n) ==
    IF n = 0 THEN text ELSE SubRule(Rules[n], SubRules(text, n - 1))

\* html.unescape on the named references of the model's texts: amp, lt and
\* gt, with and without ";" (numeric references do not occur in them).
EntityNames == {<<"a", "m", "p", ";">>, <<"l", "t", ";">>, <<"g", "t", ";">>, <<"a", "m", "p">>, <<"l", "t">>, <<"g", "t">>}
EntityChar(name) ==
    CASE Take(name, 2) = <<"a", "m">> -> "&"
      [] Take(name, 2) = <<"l", "t">> -> "<"
      [] Take(name, 2) = <<"g", "t">> -> ">"

\* The characters that end the name of a reference: [^\t\n\f <&#;].
NameEnds == {"\t", "\n", "\f", " ", "<", "&", "#", ";"}

\* The reference that starts rest (the text behind an "&"): its name, of 1
\* to 32 name characters and a ";" if one follows, and what replaces "&name":
\* the character of the name, or of its longest proper prefix of two or more
\* characters that is a name, followed by what is left of the name.
CharRef(rest) ==
    LET ends == {k \in 1..Len(rest) : rest[k] \in NameEnds}
        run == Take(IF ends = {} THEN rest ELSE Take(rest, Min(ends) - 1), 32)
        name == IF At(rest, Len(run) + 1) = ";" THEN Append(run, ";") ELSE run
        prefixes == {x \in 2..(Len(name) - 1) : Take(name, x) \in EntityNames}
    IN [len |-> IF run = <<>> THEN 0 ELSE Len(name),
        repl |-> IF name \in EntityNames THEN <<EntityChar(name)>>
                 ELSE IF prefixes # {}
                      THEN <<EntityChar(Take(name, Max(prefixes)))>>
                               \o Drop(name, Max(prefixes))
                      ELSE <<"&">> \o name]

RECURSIVE unescape(_)
unescape(text) ==
    IF text = <<>> THEN <<>>
    ELSE IF text[1] = "&" /\ CharRef(Tail(text)).len > 0
         THEN CharRef(Tail(text)).repl
                  \o unescape(Drop(text, 1 + CharRef(Tail(text)).len))
         ELSE <<text[1]>> \o unescape(Tail(text))

\* re.sub(r'\n{3,}', '\n\n', text): of a run of newlines the first two stay.
SubNewlines(text) ==
    LET sub == [i \in 1..Len(text) |->
                  IF text[i] = "\n" /\ At(text, i - 1) = "\n" /\ At(text, i - 2) = "\n"
                  THEN "" ELSE text[i]]
    IN SelectSeq(sub, LAMBDA ch : ch # "")

\* Variant: one whitespace character is taken from each end of the text.
StripText_OneEach(text) ==
    LET left == IF At(text, 1) \in Whitespace THEN Tail(text) ELSE text
    IN IF At(left, Len(left)) \in Whitespace THEN Take(left, Len(left) - 1) ELSE left

\* text.strip()
StripText(text) == Strip(text, Whitespace)

\* html_to_markdown(html); html is <<>> for None and <<text>> for a str.
html_to_markdown(html) ==
    IF html = <<>> \/ html[1] = <<>> THEN <<>>
    ELSE StripText(SubNewlines(unescape(SubTags(SubRules(html[1], Len(Rules))))))

\* The arguments of the model: None, up to MaxHtmlParts parts put one after
\* the other, and one document for each kind of substitution.
MaxHtmlParts == 4
HtmlParts == {<<"x">>, <<"\n">>, <<"&", "a", "m", "p", ";">>, <<"&", "l", "t", ";">>, <<"&", "g", "t", ";">>, <<"l", "t", ";">>, <<"<", "b", ">">>, <<"<", "/", "b", ">">>}
HtmlSamples ==
    {<<"<", "h", "1", ">", "x", "<", "/", "h", "1", ">", "<", "h", "2", " ", "i", "d", "=", "\"", "t", "\"", ">", "x", "<", "/", "h", "2", ">">>, <<"<", "h", "3", ">", "x", "<", "/", "h", "3", ">", "\n", "<", "h", "4", ">", "x", "<", "/", "h", "4", ">">>,
     <<"<", "s", "t", "r", "o", "n", "g", ">", "x", "<", "/", "s", "t", "r", "o", "n", "g", ">", " ", "<", "e", "m", ">", "x", "<", "/", "e", "m", ">", "<", "i", ">", "x", "<", "/", "i", ">">>, <<"<", "a", " ", "c", "l", "a", "s", "s", "=", "\"", "c", "\"", " ", "h", "r", "e", "f", "=", "\"", "u", "\"", ">", "x", "<", "/", "a", ">">>,
     <<"<", "u", "l", ">", "<", "l", "i", ">", "x", "<", "/", "l", "i", ">", "<", "/", "u", "l", ">", "<", "o", "l", ">", "<", "/", "o", "l", ">">>, <<"<", "p", ">", "x", "<", "/", "p", ">", "<", "b", "r", " ", "/", ">", "<", "b", "r", ">", "x">>, <<"<", "d", "i", "v", ">", "\n", " ", "x", "<", "/", "d", "i", "v", ">", "<", "s", "p", "a", "n", ">">>}
HtmlArgs ==
    {<<>>} \cup {<<text>> : text \in Joined(HtmlParts, MaxHtmlParts) \cup HtmlSamples}

InitMarkdown ==
    /\ NoDirectory
    /\ sync = NoSync
    /\ data = NoFiles
    /\ cli = NoCli
    /\ call \in {Pending("html_to_markdown", html) : html \in HtmlArgs}

HtmlToMarkdown ==
    /\ call.fn = "html_to_markdown"
    /\ call.ret = <<>>
    /\ call' = Returned(call, html_to_markdown(call.arg))
    /\ UNCHANGED <<dirExists, md, cache, last, sync, data, cli>>

NextMarkdown == HtmlToMarkdown

SpecMarkdown == InitMarkdown /\ [][NextMarkdown]_vars

\* html.unescape changes the text: it holds a reference that is decoded.
HasEntity(text) == unescape(text) # text

\* The call of html_to_markdown has returned; its argument, its result and
\* the result of html_to_markdown applied to that result.
MarkdownDone == call.fn = "html_to_markdown" /\ call.ret # <<>>
Once == call.ret[1]
Twice == html_to_markdown(<<Once>>)

\* C19 as stated: html_to_markdown returns "" for an empty or null input,
\* and for every input x without tags a second application does not change
\* the result, also when x contains HTML entities.
C19_IdempotentOnTagFree ==
    MarkdownDone =>
        /\ (call.arg = <<>> \/ call.arg = <<<<>>>>) => Once = <<>>
        /\ (call.arg # <<>> /\ ~HasTag(call.arg[1])) => Twice = Once

\* C19, amended: html_to_markdown returns "" for an empty or null input, and
\* for every input x without tags and without HTML entities a second
\* application does not change the result.
C19_IdempotentOnPlainText ==
    MarkdownDone =>
        /\ (call.arg = <<>> \/ call.arg = <<<<>>>>) => Once = <<>>
        /\ (call.arg # <<>> /\ ~HasTag(call.arg[1]) /\ ~HasEntity(call.arg[1]))
              => Twice = Once

\* A text without tags and entities that html_to_markdown changes (blank
\* lines are dropped at its ends) and does not change again.
C19_Witness ==
    /\ MarkdownDone
    /\ call.arg # <<>>
    /\ ~HasTag(call.arg[1]) /\ ~HasEntity(call.arg[1])
    /\ Once # <<>>
    /\ Once # call.arg[1]
    /\ Twice = Once

\* ===================================== content_extractor.py: extract_pdf_text
\* pypdf is taken to be installed: "from pypdf import PdfReader" succeeds.

\* pdf_path_or_bytes[:1000]
HtmlWindow == 1000

\* str(e) of an exception that pypdf raises.
PdfError == <<"b", "a", "d", " ", "x", "r", "e", "f">>

\* What PdfReader makes of a file: it raises, or it yields the pages, and
\* page.extract_text() of a page yields a text (maybe empty) or raises.
PageOutcomes == {Value(<<"a">>), Value(<<"b">>), Value(<<>>), Raises(PdfError)}
MaxPages == 3

RECURSIVE PageLists(_)
PageLists(n) ==
    IF n = 0 THEN {<<>>}
    ELSE LET shorter == PageLists(n - 1) IN
         shorter \cup {Append(pages, page) : pages \in shorter, page \in PageOutcomes}

Readers == {Raises(PdfError)} \cup {Value(pages) : pages \in PageLists(MaxPages)}

\* The loop over reader.pages: the texts appended to text_parts, or the
\* exception of the first page whose extract_text() raises.
RECURSIVE PageTexts(_)
PageTexts(pages) ==
    IF pages = <<>> THEN Value(<<>>)
    ELSE IF pages[1].raised # <<>> THEN Raises(pages[1].raised)
    ELSE LET rest == PageTexts(Tail(pages)) IN
         IF rest.raised # <<>> THEN rest
         ELSE IF pages[1].value # <<>> THEN Value(<<pages[1].value>> \o rest.value)
         ELSE rest

\* The body of the try block of extract_pdf_text: is_bytes tells a bytes
\* argument from a path, bytes is the argument if it is bytes, reader what
\* PdfReader makes of the file.
PdfTryBlock(is_bytes, bytes, reader) ==
    IF is_bytes /\ ~StartsWith(bytes, <<"%", "P", "D", "F">>)
    THEN IF Contains(Lower(Take(bytes, HtmlWindow)), <<"<", "h", "t", "m", "l">>)
              \/ Contains(Lower(Take(bytes, HtmlWindow)), <<"<", "!", "d", "o", "c", "t", "y", "p", "e">>)
         THEN Value(<<"[", "C", "o", "u", "l", "d", " ", "n", "o", "t", " ", "e", "x", "t", "r", "a", "c", "t", " ", "P", "D", "F", ":", " ", "r", "e", "c", "e", "i", "v", "e", "d", " ", "H", "T", "M", "L", " ", "i", "n", "s", "t", "e", "a", "d", " ", "o", "f", " ", "P", "D", "F", " ", "-", " ", "a", "u", "t", "h", "e", "n", "t", "i", "c", "a", "t", "i", "o", "n", " ", "m", "a", "y", " ", "h", "a", "v", "e", " ", "f", "a", "i", "l", "e", "d", "]">>)
         ELSE Value(<<"[", "C", "o", "u", "l", "d", " ", "n", "o", "t", " ", "e", "x", "t", "r", "a", "c", "t", " ", "P", "D", "F", ":", " ", "f", "i", "l", "e", " ", "d", "o", "e", "s", " ", "n", "o", "t", " ", "a", "p", "p", "e", "a", "r", " ", "t", "o", " ", "b", "e", " ", "a", " ", "v", "a", "l", "i", "d", " ", "P", "D", "F", "]">>)
    ELSE IF reader.raised # <<>> THEN Raises(reader.raised)
    ELSE LET text_parts == PageTexts(reader.value) IN
         IF text_parts.raised # <<>> THEN text_parts
         ELSE Value(Join(text_parts.value, <<"\n", "\n">>))

\* Variant: no except clause around the body.
extract_pdf_text_NoExcept(is_bytes, bytes, reader) ==
    PdfTryBlock(is_bytes, bytes, reader)

\* extract_pdf_text: except Exception as e turns what the body raises into
\* a placeholder with the text of e.
extract_pdf_text(is_bytes, bytes, reader) ==
    LET body == PdfTryBlock(is_bytes, bytes, reader) IN
    IF body.raised # <<>>
    THEN Value(<<"[", "C", "o", "u", "l", "d", " ", "n", "o", "t", " ", "e", "x", "t", "r", "a", "c", "t", " ", "P", "D", "F", " ", "t", "e", "x", "t", ":", " ">> \o body.raised \o <<"]">>)
    ELSE body

\* The bytes of the model that are no PDF: short ones, and an "<html" that
\* begins just inside or just outside the first HtmlWindow bytes.
NotPdfBytes ==
    {<<>>, <<"h", "e", "l", "l", "o">>, <<"<", "H", "T", "M", "L", ">", "<", "b", "o", "d", "y", ">">>, <<" ", "<", "!", "D", "o", "c", "T", "y", "p", "e", " ", "h", "t", "m", "l", ">">>, <<"P", "D", "F", "%">>, <<"<", "h", "t", "m">>}
        \cup {Repeat("x", n) \o <<"<", "h", "t", "m", "l", ">">> : n \in (HtmlWindow - 6)..(HtmlWindow - 4)}
        \cup {Repeat("x", n) \o <<"<", "!", "D", "O", "C", "T", "Y", "P", "E", ">">> : n \in (HtmlWindow - 10)..(HtmlWindow - 8)}

\* The arguments of the model: bytes that are no PDF, bytes with the
\* signature and a path, with what PdfReader makes of them.
PdfArgs ==
    {[is_bytes |-> TRUE, bytes |-> b, reader |-> Raises(PdfError)] : b \in NotPdfBytes}
        \cup {[is_bytes |-> TRUE, bytes |-> <<"%", "P", "D", "F", "-", "1", ".", "4">>, reader |-> r] : r \in Readers}
        \cup {[is_bytes |-> FALSE, bytes |-> <<>>, reader |-> r] : r \in Readers}

InitPdf ==
    /\ NoDirectory
    /\ sync = NoSync
    /\ data = NoFiles
    /\ cli = NoCli
    /\ call \in {Pending("extract_pdf_text", arg) : arg \in PdfArgs}

ExtractPdfText ==
    /\ call.fn = "extract_pdf_text"
    /\ call.ret = <<>>
    /\ call' = Returned(call, extract_pdf_text(call.arg.is_bytes, call.arg.bytes,
                                               call.arg.reader))
    /\ UNCHANGED <<dirExists, md, cache, last, sync, data, cli>>

NextPdf == ExtractPdfText

SpecPdf == InitPdf /\ [][NextPdf]_vars

PdfDone == call.fn = "extract_pdf_text" /\ call.ret # <<>>
HasSignature == call.arg.is_bytes /\ StartsWith(call.arg.bytes, <<"%", "P", "D", "F">>)

\* "<html" or "<!doctype" occurs, in any case of the letters, in the first
\* 1000 bytes: it begins at one of the indices 1..(1000 - its length + 1).
MarkerInWindow(bytes) ==
    \E marker \in {<<"<", "h", "t", "m", "l">>, <<"<", "!", "d", "o", "c", "t", "y", "p", "e">>} :
        \E i \in 1..(HtmlWindow - Len(marker) + 1) :
            /\ i + Len(marker) - 1 <= Len(bytes)
            /\ Lower(SubSeq(bytes, i, i + Len(marker) - 1)) = marker

\* C15: extract_pdf_text never raises. For bytes that do not start with the
\* PDF signature it returns the "received HTML instead of PDF" placeholder
\* when "<html" or "<!doctype" occurs case-insensitively in the first 1000
\* bytes, and otherwise the placeholder that contains "not appear to be a
\* valid PDF"; for bytes with the signature that PdfReader cannot parse it
\* returns a placeholder that embeds the text of the error.
C15_PlaceholderNeverRaises ==
    PdfDone =>
        LET r == call.ret[1] IN
        /\ r.raised = <<>>
        /\ (call.arg.is_bytes /\ ~HasSignature) =>
              IF MarkerInWindow(call.arg.bytes)
              THEN Contains(r.value, <<"r", "e", "c", "e", "i", "v", "e", "d", " ", "H", "T", "M", "L", " ", "i", "n", "s", "t", "e", "a", "d", " ", "o", "f", " ", "P", "D", "F">>)
              ELSE Contains(r.value, <<"n", "o", "t", " ", "a", "p", "p", "e", "a", "r", " ", "t", "o", " ", "b", "e", " ", "a", " ", "v", "a", "l", "i", "d", " ", "P", "D", "F">>)
        /\ (HasSignature /\ call.arg.reader.raised # <<>>) =>
              /\ StartsWith(r.value, <<"[", "C", "o", "u", "l", "d", " ", "n", "o", "t", " ", "e", "x", "t", "r", "a", "c", "t", " ", "P", "D", "F", " ", "t", "e", "x", "t">>)
              /\ Contains(r.value, call.arg.reader.raised)

\* Bytes without the signature whose "<html" ends at the last byte of the
\* window have given the HTML placeholder.
C15_Witness ==
    /\ PdfDone
    /\ call.arg.bytes = Repeat("x", HtmlWindow - 5) \o <<"<", "h", "t", "m", "l", ">">>
    /\ call.ret[1].raised = <<>>
    /\ Contains(call.ret[1].value, <<"H", "T", "M", "L", " ", "i", "n", "s", "t", "e", "a", "d">>)

\* C16: when the PDF signature matches, a failure of extract_text on one page
\* is swallowed for that page only: the result is the text of all other
\* pages with text, in page order, joined by a blank line.
C16_PageFailureSkipsPage ==
    (PdfDone /\ HasSignature /\ call.arg.reader.raised = <<>>) =>
        LET pages == call.arg.reader.value
            texts == SelectSeq(pages, LAMBDA page : page.raised = <<>> /\ page.value # <<>>)
        IN call.ret[1] = Value(Join([i \in 1..Len(texts) |-> texts[i].value], <<"\n", "\n">>))

\* ================================= content_extractor.py: extract_zip_contents
\* files_list[:20]
ListingLimit == 20

\* len(code) < 50000
TextLimit == 50000

\* str(n) for 0 <= n < 100.
DigitChars == <<"0", "1", "2", "3", "4", "5", "6", "7", "8", "9">>
Str(n) ==
    IF n < 10 THEN <<DigitChars[n + 1]>>
    ELSE <<DigitChars[(n \div 10) + 1], DigitChars[(n % 10) + 1]>>

\* The endings and names that make extract_zip_contents read a file as code
\* or as text.
CodeEndings ==
    {<<".", "p", "y">>, <<".", "r">>, <<".", "i", "p", "y", "n", "b">>, <<".", "s", "q", "l">>, <<".", "j", "s">>, <<".", "j", "a", "v", "a">>, <<".", "c", "p", "p">>, <<".", "c">>, <<".", "h">>,
     <<".", "s", "h">>, <<".", "b", "a", "t">>, <<".", "p", "s", "1">>, <<".", "y", "m", "l">>, <<".", "y", "a", "m", "l">>}
CodeNames == {<<"d", "o", "c", "k", "e", "r", "f", "i", "l", "e">>, <<"m", "a", "k", "e", "f", "i", "l", "e">>, <<"r", "a", "k", "e", "f", "i", "l", "e">>}
TextEndings ==
    {<<".", "t", "x", "t">>, <<".", "m", "d">>, <<".", "c", "s", "v">>, <<".", "j", "s", "o", "n">>, <<".", "x", "m", "l">>, <<".", "h", "t", "m", "l">>, <<".", "r", "s", "t">>, <<".", "c", "f", "g">>,
     <<".", "i", "n", "i">>, <<".", "t", "o", "m", "l">>}

\* The fence of a markdown code block: three grave accents in the program,
\* written with the character ' here, which a string of TLA+ can hold.
Fence == <<"'", "'", "'">>

\* Path(filename).name: what follows the last "/".
BaseName(filename) ==
    LET slashes == {i \in 1..Len(filename) : filename[i] = "/"} IN
    IF slashes = {} THEN filename ELSE Drop(filename, Max(slashes))

\* Path(filename).suffix[1:] if Path(filename).suffix else 'text'
CodeLanguage(filename) ==
    LET name == BaseName(filename)
        dots == {i \in 2..(Len(name) - 1) : name[i] = "."}
    IN IF dots = {} THEN <<"t", "e", "x", "t">> ELSE Drop(name, Max(dots))

\* str(e) of the exceptions of the model.
ExtractError == <<"B", "a", "d", " ", "C", "R", "C", "-", "3", "2">>
MkdirError == <<"P", "e", "r", "m", "i", "s", "s", "i", "o", "n", " ", "d", "e", "n", "i", "e", "d">>

\* An entry of the archive (a ZipInfo and what happens to it): its filename,
\* whether is_dir() holds, what zf.extract raises (empty when it succeeds),
\* what reading the extracted file as text yields and what PdfReader makes
\* of the extracted file.
Entry(filename, is_dir, extract, read, reader) ==
    [filename |-> filename, is_dir |-> is_dir, extract |-> extract,
     read |-> read, reader |-> reader]

\* The section that an extracted file adds to extracted_content: a sequence
\* with the section, or the empty sequence.
EntryContent(entry) ==
    LET filename == entry.filename
        file_lower == Lower(filename)
        heading == <<"#", "#", "#", " ">> \o filename \o <<"\n", "\n">>
    IN IF EndsWith(file_lower, <<".", "p", "d", "f">>)
       THEN LET pdf_text == extract_pdf_text(FALSE, <<>>, entry.reader).value IN
            IF ~StartsWith(pdf_text, <<"[", "C", "o", "u", "l", "d", " ", "n", "o", "t">>) THEN <<heading \o pdf_text>> ELSE <<>>
       ELSE IF (\E ending \in CodeEndings : EndsWith(file_lower, ending))
                  \/ Lower(BaseName(filename)) \in CodeNames
       THEN IF entry.read.raised = <<>> /\ Len(entry.read.value) < TextLimit
            THEN <<heading \o Fence \o CodeLanguage(filename) \o <<"\n">>
                       \o entry.read.value \o <<"\n">> \o Fence>>
            ELSE <<>>
       ELSE IF \E ending \in TextEndings : EndsWith(file_lower, ending)
       THEN IF entry.read.raised = <<>> /\ Len(entry.read.value) < TextLimit
            THEN <<heading \o entry.read.value>>
            ELSE <<>>
       ELSE <<>>

\* What the function has gathered: files_list, extracted_content and the
\* filenames that zf.extract has written below extract_dir.
NothingGathered == [files_list |-> <<>>, extracted_content |-> <<>>, on_disk |-> <<>>]

\* One pass of the loop over zf.infolist() without its try/except: the
\* exception of zf.extract leaves the loop.
RECURSIVE ExtractEntries_NoExcept(_, _)
ExtractEntries_NoExcept(entries, got) ==
    IF entries = <<>> THEN [raised |-> <<>>, got |-> got]
    ELSE LET entry == entries[1] IN
         IF entry.is_dir THEN ExtractEntries_NoExcept(Tail(entries), got)
         ELSE IF entry.extract # <<>> THEN [raised |-> entry.extract, got |-> got]
         ELSE ExtractEntries_NoExcept(Tail(entries),
                 [files_list |-> Append(got.files_list, entry.filename),
                  extracted_content |-> got.extracted_content \o EntryContent(entry),
                  on_disk |-> Append(got.on_disk, entry.filename)])

\* The loop over zf.infolist(): directories are passed over; an entry that
\* zf.extract writes is listed and read; an entry for which zf.extract raises
\* is listed with the text of the exception.
RECURSIVE ExtractEntries(_, _)
ExtractEntries(entries, got) ==
    IF entries = <<>> THEN [raised |-> <<>>, got |-> got]
    ELSE LET entry == entries[1] IN
         IF entry.is_dir THEN ExtractEntries(Tail(entries), got)
         ELSE IF entry.extract # <<>>
         THEN ExtractEntries(Tail(entries),
                 [got EXCEPT !.files_list =
                     Append(@, entry.filename \o <<" ", "(", "e", "x", "t", "r", "a", "c", "t", "i", "o", "n", " ", "f", "a", "i", "l", "e", "d", ":", " ">>
                                   \o entry.extract \o <<")">>)])
         ELSE ExtractEntries(Tail(entries),
                 [files_list |-> Append(got.files_list, entry.filename),
                  extracted_content |-> got.extracted_content \o EntryContent(entry),
                  on_disk |-> Append(got.on_disk, entry.filename)])

\* "Build summary": the text that extract_zip_contents returns.
Summary(got, extract_dir) ==
    LET files_list == got.files_list
        shown == Take(files_list, ListingLimit)
        lines == [i \in 1..Len(shown) |-> <<"-", " ">> \o shown[i] \o <<"\n">>]
    IN <<"*", "*", "E", "x", "t", "r", "a", "c", "t", "e", "d", " ">> \o Str(Len(files_list)) \o <<" ", "f", "i", "l", "e", "s", ":", "*", "*", "\n">>
         \o Join(lines, <<>>)
         \o (IF Len(files_list) > ListingLimit
             THEN <<"-", " ", ".", ".", ".", " ", "a", "n", "d", " ">> \o Str(Len(files_list) - ListingLimit) \o <<" ", "m", "o", "r", "e", " ", "f", "i", "l", "e", "s", "\n">>
             ELSE <<>>)
         \o <<"\n", "*", "*", "L", "o", "c", "a", "t", "i", "o", "n", ":", "*", "*", " ">> \o extract_dir \o <<"\n">>
         \o (IF got.extracted_content # <<>>
             THEN <<"\n", "-", "-", "-", "\n", "\n">> \o Join(got.extracted_content, <<"\n", "\n", "-", "-", "-", "\n", "\n">>)
             ELSE <<>>)

\* What the call leaves: the text it returns or the exception it raises, and
\* what it has gathered.
ZipResult(raised, value, got) == [raised |-> raised, value |-> value, got |-> got]

\* extract_zip_contents(zip_bytes, extract_dir). archive is what
\* zipfile.ZipFile and extract_dir.mkdir do: opened is "BadZipFile" when
\* ZipFile raises it, "error" when another exception is raised (error is its
\* text) and "ok" with the entries of the archive otherwise.
extract_zip_contents(zip_bytes, extract_dir, archive) ==
    IF ~StartsWith(zip_bytes, <<"P", "K">>)
    THEN IF Contains(Lower(Take(zip_bytes, HtmlWindow)), <<"<", "h", "t", "m", "l">>)
              \/ Contains(Lower(Take(zip_bytes, HtmlWindow)), <<"<", "!", "d", "o", "c", "t", "y", "p", "e">>)
         THEN ZipResult(<<>>, <<"[", "C", "o", "u", "l", "d", " ", "n", "o", "t", " ", "e", "x", "t", "r", "a", "c", "t", " ", "z", "i", "p", ":", " ", "r", "e", "c", "e", "i", "v", "e", "d", " ", "H", "T", "M", "L", " ", "i", "n", "s", "t", "e", "a", "d", " ", "o", "f", " ", "z", "i", "p", " ", "f", "i", "l", "e", " ", "-", " ", "a", "u", "t", "h", "e", "n", "t", "i", "c", "a", "t", "i", "o", "n", " ", "m", "a", "y", " ", "h", "a", "v", "e", " ", "f", "a", "i", "l", "e", "d", "]">>, NothingGathered)
         ELSE ZipResult(<<>>, <<"[", "C", "o", "u", "l", "d", " ", "n", "o", "t", " ", "e", "x", "t", "r", "a", "c", "t", " ", "z", "i", "p", ":", " ", "f", "i", "l", "e", " ", "d", "o", "e", "s", " ", "n", "o", "t", " ", "a", "p", "p", "e", "a", "r", " ", "t", "o", " ", "b", "e", " ", "a", " ", "v", "a", "l", "i", "d", " ", "z", "i", "p", " ", "f", "i", "l", "e", "]">>, NothingGathered)
    ELSE IF archive.opened = "BadZipFile"
    THEN ZipResult(<<>>, <<"[", "C", "o", "u", "l", "d", " ", "n", "o", "t", " ", "e", "x", "t", "r", "a", "c", "t", ":", " ", "I", "n", "v", "a", "l", "i", "d", " ", "z", "i", "p", " ", "f", "i", "l", "e", "]">>, NothingGathered)
    ELSE IF archive.opened = "error"
    THEN ZipResult(<<>>, <<"[", "C", "o", "u", "l", "d", " ", "n", "o", "t", " ", "e", "x", "t", "r", "a", "c", "t", " ", "z", "i", "p", ":", " ">> \o archive.error \o <<"]">>, NothingGathered)
    ELSE LET loop == ExtractEntries(archive.entries, NothingGathered) IN
         IF loop.raised # <<>>
         THEN ZipResult(<<>>, <<"[", "C", "o", "u", "l", "d", " ", "n", "o", "t", " ", "e", "x", "t", "r", "a", "c", "t", " ", "z", "i", "p", ":", " ">> \o loop.raised \o <<"]">>, loop.got)
         ELSE ZipResult(<<>>, Summary(loop.got, extract_dir), loop.got)

\* The entries of the model.
MaxEntries == 3
NoRead == Raises(<<"b", "i", "n", "a", "r", "y">>)
Entries ==
    {Entry(<<"d", "/">>, TRUE, <<>>, NoRead, Raises(PdfError)),
     Entry(<<"d", "/", "n", ".", "t", "x", "t">>, FALSE, <<>>, Value(<<"h", "i">>), Raises(PdfError)),
     Entry(<<"d", "/", "n", ".", "t", "x", "t">>, FALSE, ExtractError, NoRead, Raises(PdfError)),
     Entry(<<"m", ".", "P", "Y">>, FALSE, <<>>, Value(<<"x", "=", "1">>), Raises(PdfError)),
     Entry(<<"i", ".", "p", "n", "g">>, FALSE, <<>>, NoRead, Raises(PdfError)),
     Entry(<<"p", ".", "p", "d", "f">>, FALSE, <<>>, NoRead, Value(<<Value(<<"a">>)>>)),
     Entry(<<"p", ".", "p", "d", "f">>, FALSE, ExtractError, NoRead, Raises(PdfError))}

RECURSIVE EntryLists(_)
EntryLists(n) ==
    IF n = 0 THEN {<<>>}
    ELSE LET shorter == EntryLists(n - 1) IN
         shorter \cup {Append(entries, entry) : entries \in shorter, entry \in Entries}

\* The archives of the model: one that ZipFile rejects, one whose directory
\* cannot be made, and archives of up to MaxEntries entries, alone or behind
\* as many image files as bring the list to the limit of the listing.
Archive(opened, error, entries) == [opened |-> opened, error |-> error, entries |-> entries]
Archives ==
    {Archive("BadZipFile", <<>>, <<>>), Archive("error", MkdirError, <<>>)}
        \cup {Archive("ok", <<>>,
                      [i \in 1..n |-> Entry(<<"i", ".", "p", "n", "g">>, FALSE, <<>>, NoRead, Raises(PdfError))]
                          \o entries) :
                 n \in {0, ListingLimit - 1}, entries \in EntryLists(MaxEntries)}

ZipArgs ==
    {[zip_bytes |-> b, archive |-> Archive("BadZipFile", <<>>, <<>>)] :
        b \in {<<>>, <<"<", "h", "t", "m", "l", ">">>, <<"%", "P", "D", "F">>}}
        \cup {[zip_bytes |-> <<"P", "K", "\\", "3", "\\", "4">>, archive |-> a] : a \in Archives}

InitZip ==
    /\ NoDirectory
    /\ sync = NoSync
    /\ data = NoFiles
    /\ cli = NoCli
    /\ call \in {Pending("extract_zip_contents", arg) : arg \in ZipArgs}

ExtractZipContents ==
    /\ call.fn = "extract_zip_contents"
    /\ call.ret = <<>>
    /\ call' = Returned(call, extract_zip_contents(call.arg.zip_bytes, <<"/", "d", "a", "t", "a", "/", "z">>,
                                                   call.arg.archive))
    /\ UNCHANGED <<dirExists, md, cache, last, sync, data, cli>>

NextZip == ExtractZipContents

SpecZip == InitZip /\ [][NextZip]_vars

ZipDone == call.fn = "extract_zip_contents" /\ call.ret # <<>>
ZipOpened == StartsWith(call.arg.zip_bytes, <<"P", "K">>) /\ call.arg.archive.opened = "ok"

\* The entries of the archive that are no directories, and how the manifest
\* names one of them.
FileEntries == SelectSeq(call.arg.archive.entries, LAMBDA entry : ~entry.is_dir)
ManifestName(entry) ==
    IF entry.extract = <<>> THEN entry.filename
    ELSE entry.filename \o <<" ", "(", "e", "x", "t", "r", "a", "c", "t", "i", "o", "n", " ", "f", "a", "i", "l", "e", "d", ":", " ">> \o entry.extract \o <<")">>

\* C17: in extract_zip_contents on a buffer with the ZIP signature the
\* function never raises; a corrupt archive gives the invalid-zip
\* placeholder and any other error the generic placeholder with its text;
\* otherwise the manifest names every entry that is no directory, in order,
\* a failed one as "<name> (extraction failed: <reason>)", every entry whose
\* extraction does not fail is extracted, also behind a failed one, and the
\* returned text counts the manifest and lists its first 20 names.
C17_EntryFailureIsRecorded ==
    (ZipDone /\ StartsWith(call.arg.zip_bytes, <<"P", "K">>)) =>
        LET r == call.ret[1]
            archive == call.arg.archive
            succeeded == SelectSeq(FileEntries, LAMBDA entry : entry.extract = <<>>)
        IN /\ r.raised = <<>>
           /\ archive.opened = "BadZipFile" =>
                 r.value = <<"[", "C", "o", "u", "l", "d", " ", "n", "o", "t", " ", "e", "x", "t", "r", "a", "c", "t", ":", " ", "I", "n", "v", "a", "l", "i", "d", " ", "z", "i", "p", " ", "f", "i", "l", "e", "]">>
           /\ archive.opened = "error" =>
                 r.value = <<"[", "C", "o", "u", "l", "d", " ", "n", "o", "t", " ", "e", "x", "t", "r", "a", "c", "t", " ", "z", "i", "p", ":", " ">> \o archive.error \o <<"]">>
           /\ archive.opened = "ok" =>
                 /\ r.got.files_list = [i \in 1..Len(FileEntries) |-> ManifestName(FileEntries[i])]
                 /\ r.got.on_disk = [i \in 1..Len(succeeded) |-> succeeded[i].filename]
                 /\ StartsWith(r.value, <<"*", "*", "E", "x", "t", "r", "a", "c", "t", "e", "d", " ">> \o Str(Len(FileEntries)) \o <<" ", "f", "i", "l", "e", "s", ":", "*", "*", "\n">>)
                 /\ \A i \in 1..Len(FileEntries) :
                       i <= ListingLimit =>
                          Contains(r.value, <<"-", " ">> \o ManifestName(FileEntries[i]) \o <<"\n">>)

\* An archive whose first entry fails and whose last entry is extracted and
\* inlined all the same.
C17_Witness ==
    /\ ZipDone
    /\ ZipOpened
    /\ Len(FileEntries) = MaxEntries
    /\ FileEntries[1].extract # <<>>
    /\ call.ret[1].got.on_disk = <<FileEntries[MaxEntries].filename>>
    /\ Contains(call.ret[1].value, <<"(", "e", "x", "t", "r", "a", "c", "t", "i", "o", "n", " ", "f", "a", "i", "l", "e", "d", ":", " ", "B", "a", "d", " ", "C", "R", "C", "-", "3", "2", ")", "\n">>)
    /\ Contains(call.ret[1].value, <<"#", "#", "#", " ", "d", "/", "n", ".", "t", "x", "t", "\n", "\n", "h", "i">>)

\* ================================== content_extractor.py: process_module_item
\* A value that may be None: the empty sequence, or the value in a sequence.
Absent == <<>>
Some(v) == <<v>>

\* What follows the network location in a URL that urlparse accepts:
\* rest is the URL after its scheme.
RestAfter(rest, netloc) ==
    IF Take(rest, 2) = <<"/", "/">> THEN Drop(rest, 2 + Len(netloc)) ELSE rest

AfterNetloc(url) == RestAfter(AfterScheme(url), urlparse_netloc(url).value)

\* text up to the first of its characters that is in stops.
UpTo(text, stops) ==
    LET ends == {i \in 1..Len(text) : text[i] \in stops} IN
    IF ends = {} THEN text ELSE Take(text, Min(ends) - 1)

\* urlparse(url).path: up to the first "?" or "#".
UrlPath(url) == UpTo(AfterNetloc(url), {"?", "#"})

\* urlparse(url).query: what follows the first "?" of the URL without its
\* fragment.
QueryOf(url) == Drop(url, Len(UpTo(url, {"?"})) + 1)
UrlQuery(url) == QueryOf(UpTo(AfterNetloc(url), {"#"}))

\* parse_qs(query).get(key, [None])[0]: the value of the first field
\* "key=value" with a value that is not blank, None if there is none.
FieldValue(fields, key) ==
    LET hits == {i \in 1..Len(fields) :
                    /\ StartsWith(fields[i], key \o <<"=">>)
                    /\ Len(fields[i]) > Len(key) + 1}
    IN IF hits = {} THEN Absent ELSE Some(Drop(fields[Min(hits)], Len(key) + 1))

QueryValue(query, key) == FieldValue(Split(query, "&"), key)

\* extract_youtube_id(url): the video id or None.
YoutubeId(netloc, path, query) ==
    IF Contains(netloc, <<"y", "o", "u", "t", "u", "b", "e", ".", "c", "o", "m">>)
    THEN IF path = <<"/", "w", "a", "t", "c", "h">> THEN QueryValue(query, <<"v">>)
         ELSE IF StartsWith(path, <<"/", "e", "m", "b", "e", "d", "/">>) THEN Some(Split(path, "/")[3])
         ELSE Absent
    ELSE IF Contains(netloc, <<"y", "o", "u", "t", "u", ".", "b", "e">>) THEN Some(Drop(path, 1))
    ELSE Absent

extract_youtube_id(url) == YoutubeId(urlparse_netloc(url).value, UrlPath(url), UrlQuery(url))

\* extract_panopto_id(url): <<video_id, host>>, or None for (None, None).
PanoptoId(netloc, video_id) ==
    IF Contains(Lower(netloc), <<"p", "a", "n", "o", "p", "t", "o">>) /\ video_id # Absent
    THEN Some(<<video_id[1], netloc>>)
    ELSE Absent

extract_panopto_id(url) ==
    PanoptoId(urlparse_netloc(url).value, QueryValue(UrlQuery(url), <<"i", "d">>))

\* get_youtube_transcript: api is what YouTubeTranscriptApi.get_transcript
\* does, the joined text of the segments or an exception.
get_youtube_transcript(api) ==
    IF api.raised # <<>>
    THEN <<"[", "C", "o", "u", "l", "d", " ", "n", "o", "t", " ", "e", "x", "t", "r", "a", "c", "t", " ", "t", "r", "a", "n", "s", "c", "r", "i", "p", "t", ":", " ">> \o api.raised \o <<"]">>
    ELSE api.value

\* get_panopto_transcript: delivery is what the caption delivery endpoint
\* does. "error": a request raises (text is the exception); "unavailable":
\* the response is not ok or holds no JSON; "captions": a caption track is
\* fetched (text is the caption file); "no_captions": no track can be
\* fetched (text is the session name).
Delivery(kind, text) == [kind |-> kind, text |-> text]
get_panopto_transcript(delivery) ==
    CASE delivery.kind = "error" -> <<"[", "P", "a", "n", "o", "p", "t", "o", " ", "v", "i", "d", "e", "o", " ", "-", " ", "e", "r", "r", "o", "r", ":", " ">> \o delivery.text \o <<"]">>
      [] delivery.kind = "unavailable" -> <<"[", "P", "a", "n", "o", "p", "t", "o", " ", "v", "i", "d", "e", "o", " ", "-", " ", "c", "o", "u", "l", "d", " ", "n", "o", "t", " ", "e", "x", "t", "r", "a", "c", "t", " ", "t", "r", "a", "n", "s", "c", "r", "i", "p", "t", "]">>
      [] delivery.kind = "captions" -> parse_caption_file(delivery.text)
      [] delivery.kind = "no_captions" ->
            <<"[", "P", "a", "n", "o", "p", "t", "o", " ", "V", "i", "d", "e", "o", ":", " ">> \o delivery.text
                \o <<"]", "\n", "[", "C", "a", "p", "t", "i", "o", "n", "s", " ", "n", "o", "t", " ", "a", "v", "a", "i", "l", "a", "b", "l", "e", " ", "o", "r", " ", "r", "e", "q", "u", "i", "r", "e", " ", "a", "u", "t", "h", "e", "n", "t", "i", "c", "a", "t", "i", "o", "n", "]">>

\* What the world outside does during one call of process_module_item:
\*   youtube   what YouTubeTranscriptApi.get_transcript does
\*   panopto   what the caption delivery endpoint does
\*   web       what extract_webpage_content returns (its conversion of the
\*             page is not modelled: the text stands for its result)
\*   mkdir     what Path(download_dir).mkdir raises (empty: nothing)
\*   resolve   the download URL that the file metadata gives, or None
\*   download  the bytes of the file (value) or the exception of the request
\*   reader    what PdfReader makes of the bytes
\*   archive   what zipfile.ZipFile makes of the bytes
\*   save      what write_bytes raises (empty: nothing)
World(youtube, panopto, web, mkdir, resolve, download, reader, archive, save) ==
    [youtube |-> youtube, panopto |-> panopto, web |-> web, mkdir |-> mkdir,
     resolve |-> resolve, download |-> download, reader |-> reader,
     archive |-> archive, save |-> save]

\* A module item: the fields that process_module_item reads. body is None
\* when the item has no "body" key, download_url None when it has none.
Item(type, body, url, title, filename, download_url) ==
    [type |-> type, body |-> body, url |-> url, title |-> title,
     filename |-> filename, download_url |-> download_url]

\* The record that process_module_item returns: content (None or a text)
\* and extracted.
Record(content, extracted) == [content |-> content, extracted |-> extracted]

\* The branch for the type "page".
PageItem(item) ==
    IF item.body = Absent
    THEN Value(Record(Some(<<"[", "P", "a", "g", "e", " ", "c", "o", "n", "t", "e", "n", "t", " ", "n", "o", "t", " ", "l", "o", "a", "d", "e", "d", "]">>), FALSE))
    ELSE Value(Record(item.body, item.body[1] # <<>>))

\* content['content'] = content; content['extracted'] = not
\* content.startswith(prefix)
Extracted(content, prefix) == Value(Record(Some(content), ~StartsWith(content, prefix)))

\* The Panopto transcript of the branches "externalurl" and "externaltool":
\* parsed is what urlparse makes of the URL, fallback the content when the
\* URL gives no video id.
PanoptoRecord(parsed, video, fallback, world) ==
    IF parsed.raised # <<>> THEN Raises(parsed.raised)
    ELSE IF video # Absent
    THEN Extracted(get_panopto_transcript(world.panopto), <<"[", "P", "a", "n", "o", "p", "t", "o", " ", "v", "i", "d", "e", "o">>)
    ELSE Value(Record(Some(fallback), FALSE))

PanoptoItem(url, fallback, world) ==
    PanoptoRecord(urlparse_netloc(url), extract_panopto_id(url), fallback, world)

\* The try block for an external URL of content type "pdf" and its except
\* clause: extracted keeps the value it has when the exception is raised.
SavedPdf(content, failed) ==
    IF failed # <<>>
    THEN Value(Record(Some(<<"[", "C", "o", "u", "l", "d", " ", "n", "o", "t", " ", "d", "o", "w", "n", "l", "o", "a", "d", " ", "P", "D", "F", ":", " ">> \o failed \o <<"]">>),
                      ~StartsWith(content, <<"[", "C", "o", "u", "l", "d", " ", "n", "o", "t">>)))
    ELSE Extracted(content, <<"[", "C", "o", "u", "l", "d", " ", "n", "o", "t">>)

ExternalPdf(item, download_dir, world) ==
    IF world.download.raised # <<>>
    THEN Value(Record(Some(<<"[", "C", "o", "u", "l", "d", " ", "n", "o", "t", " ", "d", "o", "w", "n", "l", "o", "a", "d", " ", "P", "D", "F", ":", " ">> \o world.download.raised \o <<"]">>), FALSE))
    ELSE SavedPdf(extract_pdf_text(TRUE, world.download.value, world.reader).value,
                  IF download_dir
                  THEN (IF world.mkdir # <<>> THEN world.mkdir ELSE world.save)
                  ELSE <<>>)

\* The branch for the type "externalurl".
YoutubeItem(video_id, world) ==
    IF video_id # Absent /\ video_id[1] # <<>>
    THEN Extracted(get_youtube_transcript(world.youtube), <<"[", "C", "o", "u", "l", "d", " ", "n", "o", "t">>)
    ELSE Value(Record(Absent, FALSE))

ExternalUrlOfType(content_type, item, download_dir, world) ==
    IF content_type.raised # <<>> THEN Raises(content_type.raised)
    ELSE IF content_type.value = "youtube"
    THEN YoutubeItem(extract_youtube_id(item.url), world)
    ELSE IF content_type.value = "panopto"
    THEN PanoptoItem(item.url, <<"[", "P", "a", "n", "o", "p", "t", "o", " ", "v", "i", "d", "e", "o", ":", " ">> \o item.url \o <<"]">>, world)
    ELSE IF content_type.value = "pdf"
    THEN ExternalPdf(item, download_dir, world)
    ELSE Extracted(world.web, <<"[", "C", "o", "u", "l", "d", " ", "n", "o", "t">>)

ExternalUrlItem(item, download_dir, world) ==
    ExternalUrlOfType(identify_content_type(item.url), item, download_dir, world)

\* The branch for the type "file".
\* download_url is the one of the item or, when it has none, the one that
\* the file metadata gives (page is given).
FileNamed(filename, download_url, download_dir, world) ==
       IF ~download_dir
       THEN Value(Record(Some(<<"[", "F", "i", "l", "e", ":", " ">> \o filename \o <<" ", "-", " ", "s", "y", "n", "c", " ", "w", "i", "t", "h", " ", "b", "r", "o", "w", "s", "e", "r", " ", "t", "o", " ", "d", "o", "w", "n", "l", "o", "a", "d", "]">>), FALSE))
       ELSE IF world.mkdir # <<>> THEN Raises(world.mkdir)
       ELSE IF download_url = Absent \/ download_url[1] = <<>>
       THEN Value(Record(Some(<<"[", "F", "i", "l", "e", ":", " ">> \o filename \o <<" ", "-", " ", "c", "o", "u", "l", "d", " ", "n", "o", "t", " ", "g", "e", "t", " ", "d", "o", "w", "n", "l", "o", "a", "d", " ", "U", "R", "L", "]">>), FALSE))
       ELSE IF world.download.raised # <<>>
       THEN Value(Record(Some(<<"[", "C", "o", "u", "l", "d", " ", "n", "o", "t", " ", "d", "o", "w", "n", "l", "o", "a", "d", " ", "f", "i", "l", "e", ":", " ">> \o world.download.raised \o <<"]">>), FALSE))
       ELSE IF world.save # <<>>
       THEN Value(Record(Some(<<"[", "C", "o", "u", "l", "d", " ", "n", "o", "t", " ", "d", "o", "w", "n", "l", "o", "a", "d", " ", "f", "i", "l", "e", ":", " ">> \o world.save \o <<"]">>), FALSE))
       ELSE IF EndsWith(Lower(filename), <<".", "p", "d", "f">>)
       THEN Extracted(extract_pdf_text(TRUE, world.download.value, world.reader).value,
                      <<"[", "C", "o", "u", "l", "d", " ", "n", "o", "t">>)
       ELSE IF EndsWith(Lower(filename), <<".", "z", "i", "p">>)
       THEN Extracted(extract_zip_contents(world.download.value, <<"/", "d", "a", "t", "a", "/", "z">>,
                                           world.archive).value, <<"[", "C", "o", "u", "l", "d", " ", "n", "o", "t">>)
       ELSE Value(Record(Some(<<"[", "F", "i", "l", "e", " ", "s", "a", "v", "e", "d", ":", " ">> \o filename \o <<"]">>), TRUE))

FileItem(item, download_dir, world) ==
    FileNamed(IF item.filename # <<>> THEN item.filename ELSE item.title,
              IF item.download_url # Absent /\ item.download_url[1] # <<>>
              THEN item.download_url
              ELSE IF item.url # <<>> THEN world.resolve ELSE Absent,
              download_dir, world)

\* The branch for the type "externaltool".
ExternalTool(tool_url, title, world) ==
    IF Contains(Lower(tool_url), <<"p", "a", "n", "o", "p", "t", "o">>)
    THEN PanoptoItem(tool_url,
                     <<"[", "P", "a", "n", "o", "p", "t", "o", " ", "v", "i", "d", "e", "o", ":", " ">> \o title \o <<"]", "\n", "U", "R", "L", ":", " ">> \o tool_url
                         \o <<"\n", "[", "O", "p", "e", "n", " ", "i", "n", " ", "C", "a", "n", "v", "a", "s", " ", "t", "o", " ", "v", "i", "e", "w", "]">>, world)
    ELSE IF Contains(Lower(tool_url), <<"k", "a", "l", "t", "u", "r", "a">>)
    THEN Value(Record(Some(<<"[", "K", "a", "l", "t", "u", "r", "a", " ", "v", "i", "d", "e", "o", ":", " ">> \o title
                              \o <<"]", "\n", "[", "V", "i", "d", "e", "o", " ", "t", "r", "a", "n", "s", "c", "r", "i", "p", "t", "s", " ", "n", "o", "t", " ", "s", "u", "p", "p", "o", "r", "t", "e", "d", " ", "-", " ", "o", "p", "e", "n", " ", "i", "n", " ", "C", "a", "n", "v", "a", "s", " ", "t", "o", " ", "v", "i", "e", "w", "]">>), FALSE))
    ELSE Value(Record(Some(<<"[", "E", "x", "t", "e", "r", "n", "a", "l", " ", "t", "o", "o", "l", ":", " ">> \o title
                              \o <<"]", "\n", "[", "M", "a", "y", " ", "r", "e", "q", "u", "i", "r", "e", " ", "m", "a", "n", "u", "a", "l", " ", "a", "c", "c", "e", "s", "s", " ", "i", "n", " ", "C", "a", "n", "v", "a", "s", "]">>), FALSE))

ExternalToolItem(item, world) == ExternalTool(item.url, item.title, world)

\* process_module_item(item, page, download_dir): download_dir tells whether
\* a directory is given. The record, or the exception that leaves the call.
ItemOfType(item_type, item, download_dir, world) ==
    IF item_type = <<"p", "a", "g", "e">> THEN PageItem(item)
    ELSE IF item_type = <<"e", "x", "t", "e", "r", "n", "a", "l", "u", "r", "l">> THEN ExternalUrlItem(item, download_dir, world)
    ELSE IF item_type = <<"f", "i", "l", "e">> THEN FileItem(item, download_dir, world)
    ELSE IF item_type = <<"e", "x", "t", "e", "r", "n", "a", "l", "t", "o", "o", "l">> THEN ExternalToolItem(item, world)
    ELSE Value(Record(Absent, FALSE))

process_module_item(item, download_dir, world) ==
    ItemOfType(Lower(item.type), item, download_dir, world)

\* The world in which every request succeeds: a transcript, a caption
\* track, a page, a PDF of one page, an archive of one file.
Quiet ==
    World(Value(<<"h", "i">>), Delivery("captions", <<"1", "\n", "0", "0", ":", "0", "1", " ", "-", "-", ">", " ", "0", "0", ":", "0", "2", "\n", "h", "i">>), <<"p", "a", "g", "e", " ", "t", "e", "x", "t">>,
          <<>>, Some(<<"h", "t", "t", "p", "s", ":", "/", "/", "f", "i", "l", "e", "s", "/", "1">>), Value(<<"%", "P", "D", "F", "-", "1", ".", "4">>), Value(<<Value(<<"a">>)>>),
          Archive("ok", <<>>, <<Entry(<<"a", ".", "p", "y">>, FALSE, <<>>, Value(<<"x">>), Raises(PdfError))>>),
          <<>>)

\* The worlds of the model: Quiet, and Quiet with one thing going wrong.
Worlds ==
    {Quiet, [Quiet EXCEPT !.youtube = Raises(<<"o", "f", "f">>)]}
        \cup {[Quiet EXCEPT !.panopto = d] :
                 d \in {Delivery("error", <<"t", "i", "m", "e", "o", "u", "t">>), Delivery("unavailable", <<>>),
                        Delivery("no_captions", <<"W", "e", "e", "k", " ", "1">>), Delivery("captions", <<>>)}}
        \cup {[Quiet EXCEPT !.web = w] :
                 w \in {<<"[", "C", "o", "u", "l", "d", " ", "n", "o", "t", " ", "f", "e", "t", "c", "h", " ", "p", "a", "g", "e", ":", " ", "4", "0", "4", "]">>,
                        <<"[", "C", "o", "u", "l", "d", " ", "n", "o", "t", " ", "e", "x", "t", "r", "a", "c", "t", " ", "w", "e", "b", "p", "a", "g", "e", " ", "c", "o", "n", "t", "e", "n", "t", ":", " ", "t", "i", "m", "e", "o", "u", "t", "]">>}}
        \cup {[Quiet EXCEPT !.mkdir = <<"d", "e", "n", "i", "e", "d">>], [Quiet EXCEPT !.save = <<"d", "i", "s", "k", " ", "f", "u", "l", "l">>],
              [Quiet EXCEPT !.resolve = Absent],
              [Quiet EXCEPT !.download = Raises(<<"4", "0", "4">>)],
              [Quiet EXCEPT !.download = Value(<<"<", "h", "t", "m", "l", ">">>)],
              [Quiet EXCEPT !.reader = Raises(PdfError)],
              [Quiet EXCEPT !.reader = Value(<<Value(<<>>)>>)],
              [Quiet EXCEPT !.archive = Archive("BadZipFile", <<>>, <<>>)]}

\* The external URLs of the model, one or more of each content type, and
\* one that urlparse rejects.
ItemUrls ==
    {<<"h", "t", "t", "p", "s", ":", "/", "/", "y", "o", "u", "t", "u", ".", "b", "e", "/", "v", "1">>, <<"h", "t", "t", "p", "s", ":", "/", "/", "w", "w", "w", ".", "y", "o", "u", "t", "u", "b", "e", ".", "c", "o", "m", "/", "w", "a", "t", "c", "h", "?", "v", "=", "v", "1">>,
     <<"h", "t", "t", "p", "s", ":", "/", "/", "e", "x", "a", "m", "p", "l", "e", ".", "c", "o", "m", "/", "y", "o", "u", "t", "u", "b", "e", ".", "c", "o", "m">>, <<"h", "t", "t", "p", "s", ":", "/", "/", "x", ".", "p", "a", "n", "o", "p", "t", "o", ".", "c", "o", "m", "/", "V", "i", "e", "w", "e", "r", "?", "i", "d", "=", "p", "1">>,
     <<"h", "t", "t", "p", "s", ":", "/", "/", "x", ".", "p", "a", "n", "o", "p", "t", "o", ".", "c", "o", "m", "/", "V", "i", "e", "w", "e", "r">>, <<"h", "t", "t", "p", "s", ":", "/", "/", "e", "x", "a", "m", "p", "l", "e", ".", "c", "o", "m", "/", "a", ".", "p", "d", "f">>,
     <<"h", "t", "t", "p", "s", ":", "/", "/", "e", "x", "a", "m", "p", "l", "e", ".", "c", "o", "m", "/", "a">>, <<"h", "t", "t", "p", "s", ":", "/", "/", "k", "a", "l", "t", "u", "r", "a", ".", "c", "o", "m", "/", "v">>, <<"h", "t", "t", "p", ":", "/", "/", "[">>, <<>>}

\* The module items of the model.
Items ==
    {Item(<<"P", "a", "g", "e">>, body, <<>>, <<"T">>, <<>>, Absent) :
        body \in {Absent, Some(<<>>), Some(<<"t", "e", "x", "t">>)}}
        \cup {Item(type, Absent, url, <<"T">>, <<>>, Absent) :
                 type \in {<<"E", "x", "t", "e", "r", "n", "a", "l", "U", "r", "l">>, <<"E", "x", "t", "e", "r", "n", "a", "l", "T", "o", "o", "l">>}, url \in ItemUrls}
        \cup {Item(<<"F", "i", "l", "e">>, Absent, url, <<"T">>, filename, download_url) :
                 url \in {<<>>, <<"h", "t", "t", "p", "s", ":", "/", "/", "c", "a", "n", "v", "a", "s", "/", "f", "i", "l", "e", "s", "/", "1">>},
                 filename \in {<<"a", ".", "p", "d", "f">>, <<"a", ".", "Z", "I", "P">>, <<"a", ".", "p", "n", "g">>, <<>>},
                 download_url \in {Absent, Some(<<"h", "t", "t", "p", "s", ":", "/", "/", "f", "i", "l", "e", "s", "/", "1">>)}}
        \cup {Item(<<"S", "u", "b", "H", "e", "a", "d", "e", "r">>, Absent, <<>>, <<"T">>, <<>>, Absent)}

ModuleItemArgs ==
    {[item |-> item, download_dir |-> download_dir, world |-> world] :
        item \in Items, download_dir \in BOOLEAN, world \in Worlds}

InitModuleItem ==
    /\ NoDirectory
    /\ sync = NoSync
    /\ data = NoFiles
    /\ cli = NoCli
    /\ call \in {Pending("process_module_item", arg) : arg \in ModuleItemArgs}

ProcessModuleItem ==
    /\ call.fn = "process_module_item"
    /\ call.ret = <<>>
    /\ call' = Returned(call, process_module_item(call.arg.item, call.arg.download_dir,
                                                  call.arg.world))
    /\ UNCHANGED <<dirExists, md, cache, last, sync, data, cli>>

NextModuleItem == ProcessModuleItem

SpecModuleItem == InitModuleItem /\ [][NextModuleItem]_vars

\* The beginnings of the texts that process_module_item and the functions
\* it calls return in place of content they could not get.
FailurePrefixes ==
    {<<"[", "C", "o", "u", "l", "d", " ", "n", "o", "t">>, <<"[", "P", "a", "n", "o", "p", "t", "o", " ", "v", "i", "d", "e", "o">>, <<"[", "P", "a", "n", "o", "p", "t", "o", " ", "V", "i", "d", "e", "o">>, <<"[", "F", "i", "l", "e", ":">>,
     <<"[", "P", "a", "g", "e", " ", "c", "o", "n", "t", "e", "n", "t", " ", "n", "o", "t", " ", "l", "o", "a", "d", "e", "d", "]">>, <<"[", "K", "a", "l", "t", "u", "r", "a", " ", "v", "i", "d", "e", "o">>, <<"[", "E", "x", "t", "e", "r", "n", "a", "l", " ", "t", "o", "o", "l">>}

FailurePlaceholder(content) == \E prefix \in FailurePrefixes : StartsWith(content, prefix)

ModuleItemDone ==
    /\ call.fn = "process_module_item"
    /\ call.ret # <<>>
    /\ call.ret[1].raised = <<>>

\* C13: in the record that process_module_item returns, extracted is false
\* when content begins with a failure placeholder and true when content is
\* any other text, for every item variant and fetch outcome, the Panopto
\* video without a caption track included.
C13_ExtractedTellsPlaceholder ==
    ModuleItemDone =>
        LET record == call.ret[1].value IN
        record.content \notin {Absent, Some(<<>>)} =>
            (record.extracted <=> ~FailurePlaceholder(record.content[1]))

\* ===================== canvas_browser.py: try_headless_sync, sync_all_data
\* The sync loops over the courses. try_headless_sync and sync_all_data
\* (with fetch_and_process_modules) have the same loops and the same try
\* blocks; one model stands for both. A request that fails is api.get
\* raising in the one and a response that is not ok in the other.

\* A module of a course: its items, and what save_module_content raises
\* (empty: nothing).
Module(items, save) == [items |-> items, save |-> save]

\* A course: what save_course_data raises (empty: nothing); the request
\* for the assignments, with what save_assignment_data raises for each
\* assignment; the request for the modules.
Course(save, assignments, modules) ==
    [save |-> save, assignments |-> assignments, modules |-> modules]

\* The modules of the model: a page; a page and an external URL that
\* urlparse rejects; a page in a module that cannot be written.
PageOfText == Item(<<"P", "a", "g", "e">>, Some(<<"t", "e", "x", "t">>), <<>>, <<"T">>, <<>>, Absent)
UrlRejected == Item(<<"E", "x", "t", "e", "r", "n", "a", "l", "U", "r", "l">>, Absent, <<"h", "t", "t", "p", ":", "/", "/", "[">>, <<"T">>, <<>>, Absent)
Modules ==
    {Module(<<PageOfText>>, <<>>), Module(<<PageOfText, UrlRejected>>, <<>>),
     Module(<<PageOfText>>, <<"d", "i", "s", "k", " ", "f", "u", "l", "l">>)}

MaxModules == 2
MaxCourses == 2

RECURSIVE ModuleLists(_)
ModuleLists(n) ==
    IF n = 0 THEN {<<>>}
    ELSE LET shorter == ModuleLists(n - 1) IN
         shorter \cup {Append(list, m) : list \in shorter, m \in Modules}

\* The courses of the model: one where each step goes wrong, and the
\* courses where the modules are fetched.
Courses ==
    {Course(<<"d", "i", "s", "k", " ", "f", "u", "l", "l">>, Value(<<>>), Value(<<>>)),
     Course(<<>>, Raises(<<"5", "0", "0">>), Value(<<Module(<<PageOfText>>, <<>>)>>)),
     Course(<<>>, Value(<<<<"d", "i", "s", "k", " ", "f", "u", "l", "l">>>>), Value(<<>>)),
     Course(<<>>, Value(<<<<>>>>), Raises(<<"5", "0", "0">>))}
        \cup {Course(<<>>, Value(<<<<>>>>), Value(list)) : list \in ModuleLists(MaxModules)}

RECURSIVE CourseLists(_)
CourseLists(n) ==
    IF n = 0 THEN {<<>>}
    ELSE LET shorter == CourseLists(n - 1) IN
         shorter \cup {Append(list, c) : list \in shorter, c \in Courses}

\* The loop goes to the next course, or leaves the loop after the last.
NextCourse(s) ==
    [s EXCEPT !.course = @ + 1, !.module = 0,
              !.pc = IF s.course + 1 <= Len(s.courses) THEN "course" ELSE "summary"]

\* The courses are fetched and the loop over them begins.
InitSync ==
    /\ NoDirectory
    /\ call = NoCall
    /\ data = NoFiles
    /\ cli = NoCli
    /\ sync \in {NextCourse([NoSync EXCEPT !.courses = courses]) :
                    courses \in CourseLists(MaxCourses)}

\* save_course_data for the course: it is called outside every try block,
\* so what it raises leaves the sync.
SaveCourse ==
    /\ sync.pc = "course"
    /\ LET course == sync.courses[sync.course] IN
       sync' = IF course.save # <<>>
               THEN [sync EXCEPT !.pc = "raised", !.raised = course.save]
               ELSE [sync EXCEPT !.pc = "assignments",
                                 !.saved_courses = @ \cup {sync.course}]
    /\ UNCHANGED <<dirExists, md, cache, last, call, data, cli>>

\* Indices of the assignments that are saved before one raises.
SavedBefore(outcomes) ==
    {k \in 1..Len(outcomes) : \A h \in 1..k : outcomes[h] = <<>>}

\* The assignments of the course are fetched and saved. A request that
\* fails takes the loop to the next course (continue); save_assignment_data
\* is called outside every try block.
FetchAssignments ==
    /\ sync.pc = "assignments"
    /\ LET course == sync.courses[sync.course]
           outcomes == course.assignments.value
           saved == {<<sync.course, k>> : k \in SavedBefore(outcomes)}
           failed == {k \in 1..Len(outcomes) : outcomes[k] # <<>>}
       IN sync' = IF course.assignments.raised # <<>> THEN NextCourse(sync)
                  ELSE IF failed # {}
                  THEN [sync EXCEPT !.pc = "raised", !.raised = outcomes[Min(failed)],
                                    !.saved_assignments = @ \cup saved]
                  ELSE [sync EXCEPT !.pc = "modules", !.saved_assignments = @ \cup saved]
    /\ UNCHANGED <<dirExists, md, cache, last, call, data, cli>>

\* The modules of the course are fetched, inside the try block of the
\* course: a request that fails ends the work on this course.
FetchModules ==
    /\ sync.pc = "modules"
    /\ LET course == sync.courses[sync.course] IN
       sync' = IF course.modules.raised # <<>> THEN NextCourse(sync)
               ELSE IF course.modules.value = <<>>
               THEN NextCourse([sync EXCEPT !.fetched = @ \cup {sync.course}])
               ELSE [sync EXCEPT !.pc = "module", !.module = 1,
                                 !.fetched = @ \cup {sync.course}]
    /\ UNCHANGED <<dirExists, md, cache, last, call, data, cli>>

\* What processing and saving one module raises (empty: nothing): the
\* exception of the first item for which process_module_item raises, or
\* that of save_module_content.
FirstRaised(processed, otherwise) ==
    LET failed == {k \in 1..Len(processed) : processed[k].raised # <<>>} IN
    IF failed # {} THEN processed[Min(failed)].raised ELSE otherwise

ModuleFailure(module) ==
    FirstRaised([k \in 1..Len(module.items) |->
                    process_module_item(module.items[k], TRUE, Quiet)],
                module.save)

\* One turn of the loop over the modules: the items are processed and the
\* module is saved. The loop has no try block of its own: an exception
\* reaches the except clause of the course, which ends the work on this
\* course.
ProcessModule ==
    /\ sync.pc = "module"
    /\ LET modules == sync.courses[sync.course].modules.value
           module == modules[sync.module]
       IN sync' = IF ModuleFailure(module) # <<>> THEN NextCourse(sync)
                  ELSE IF sync.module = Len(modules)
                  THEN NextCourse([sync EXCEPT !.saved_modules =
                                                   @ \cup {<<sync.course, sync.module>>}])
                  ELSE [sync EXCEPT !.module = @ + 1,
                                    !.saved_modules = @ \cup {<<sync.course, sync.module>>}]
    /\ UNCHANGED <<dirExists, md, cache, last, call, data, cli>>

\* The list is returned without the summary.
Finished_NoSummary(s) == [s EXCEPT !.pc = "done", !.ret = "list"]

\* The end of the sync: upcoming_assignments.json is written in DATA_DIR
\* and the list is returned. DATA_DIR is made by the first
\* save_course_data; open raises where there is no directory.
Finished(s) ==
    IF s.saved_courses = {} /\ ~s.data_dir
    THEN [s EXCEPT !.pc = "raised", !.raised = <<"F", "i", "l", "e", "N", "o", "t", "F", "o", "u", "n", "d", "E", "r", "r", "o", "r">>]
    ELSE [s EXCEPT !.pc = "done", !.summary = TRUE, !.ret = "list"]

\* After the loop the summary of the upcoming assignments is written.
FinishSync ==
    /\ sync.pc = "summary"
    /\ sync' = Finished(sync)
    /\ UNCHANGED <<dirExists, md, cache, last, call, data, cli>>

NextSync ==
    \/ SaveCourse
    \/ FetchAssignments
    \/ FetchModules
    \/ ProcessModule
    \/ FinishSync

SpecSync == InitSync /\ [][NextSync]_vars

SyncOver == sync.pc \in {"done", "raised"}

\* C14: in a sync, the failure of one course, one assignment list or one
\* module does not stop the work on its siblings: when the sync is over,
\* every course that can be saved has been saved, and in every course whose
\* modules were fetched every module that can be processed and saved has
\* been saved, also after another module of the course failed.
C14_SiblingsSurvive ==
    SyncOver =>
        /\ \A i \in 1..Len(sync.courses) :
               sync.courses[i].save = <<>> => i \in sync.saved_courses
        /\ \A i \in sync.fetched :
               \A j \in 1..Len(sync.courses[i].modules.value) :
                   ModuleFailure(sync.courses[i].modules.value[j]) = <<>>
                       => <<i, j>> \in sync.saved_modules

\* ============================ canvas_browser.py: save_assignment_data
\* data with the file at path written (created or replaced).
Write(stored, path, content) ==
    [p \in DOMAIN stored \cup {path} |-> IF p = path THEN content ELSE stored[p]]

\* An assignment as Canvas returns it: the fields that save_assignment_data
\* reads. name is None when the record has no "name"; submission is the
\* kind of its "submission" ("missing": no such key, "null", or "object")
\* with the "workflow_state" of the object (None: no such key); rubric
\* tells whether it has a rubric.
Submission(kind, workflow_state) == [kind |-> kind, workflow_state |-> workflow_state]
Assignment(name, due_at, submission, rubric) ==
    [name |-> name, due_at |-> due_at, submission |-> submission, rubric |-> rubric]

\* submission.get("workflow_state", "unsubmitted") of
\* assignment.get("submission", {}) or {}
WorkflowState(submission) ==
    IF submission.kind = "object" /\ submission.workflow_state # Absent
    THEN submission.workflow_state[1]
    ELSE "unsubmitted"

HasSubmitted_NotPending(workflow_state) == workflow_state \in {"submitted", "graded"}
HasSubmitted(workflow_state) == workflow_state \in {"submitted", "graded", "pending_review"}

\* The metadata that save_assignment_data writes to assignment.json and
\* returns; now is datetime.now().
Metadata(assignment, course_name, now) ==
    [name |-> assignment.name,
     course |-> course_name,
     due_at |-> assignment.due_at,
     has_submitted |-> HasSubmitted(WorkflowState(assignment.submission)),
     is_graded |-> WorkflowState(assignment.submission) = "graded",
     workflow_state |-> WorkflowState(assignment.submission),
     fetched_at |-> now]

\* The directory of the assignment under assignments_dir.
AssignmentDir(assignment) ==
    sanitize_filename(IF assignment.name = Absent THEN <<"u", "n", "k", "n", "o", "w", "n">> ELSE assignment.name[1])

\* What requirements.md and rubric.md hold: the texts are taken as the
\* fields they are made of.
Requirements(assignment, metadata) ==
    [name |-> assignment.name, course |-> metadata.course, due |-> metadata.due_at]
Rubric(assignment) == [rubric |-> assignment.name]

WithRubric(stored, dir, assignment) ==
    IF assignment.rubric THEN Write(stored, <<dir, <<"r", "u", "b", "r", "i", "c", ".", "m", "d">>>>, Rubric(assignment))
    ELSE stored

SavedAssignment_Merged(stored, dir, assignment, metadata) ==
    WithRubric(Write(Write(stored, <<dir, <<"a", "s", "s", "i", "g", "n", "m", "e", "n", "t", ".", "j", "s", "o", "n">>>>,
                           IF <<dir, <<"a", "s", "s", "i", "g", "n", "m", "e", "n", "t", ".", "j", "s", "o", "n">>>> \in DOMAIN stored
                           THEN [metadata EXCEPT !.fetched_at =
                                     stored[<<dir, <<"a", "s", "s", "i", "g", "n", "m", "e", "n", "t", ".", "j", "s", "o", "n">>>>].fetched_at]
                           ELSE metadata),
                     <<dir, <<"r", "e", "q", "u", "i", "r", "e", "m", "e", "n", "t", "s", ".", "m", "d">>>>, Requirements(assignment, metadata)),
               dir, assignment)

SavedAssignment(stored, dir, assignment, metadata) ==
    WithRubric(Write(Write(stored, <<dir, <<"a", "s", "s", "i", "g", "n", "m", "e", "n", "t", ".", "j", "s", "o", "n">>>>, metadata),
                     <<dir, <<"r", "e", "q", "u", "i", "r", "e", "m", "e", "n", "t", "s", ".", "m", "d">>>>, Requirements(assignment, metadata)),
               dir, assignment)

\* save_assignment_data(assignment, course_name, assignments_dir): the files
\* afterwards, and the metadata returned.
save_assignment_data(stored, assignment, course_name, now) ==
    [stored |-> SavedAssignment(stored, AssignmentDir(assignment), assignment,
                                Metadata(assignment, course_name, now)),
     metadata |-> Metadata(assignment, course_name, now)]

\* The workflow states of the model: those of Canvas, and JSON null.
WorkflowStates == {"submitted", "graded", "pending_review", "unsubmitted", "null"}
Submissions ==
    {Submission("missing", Absent), Submission("null", Absent), Submission("object", Absent)}
        \cup {Submission("object", Some(w)) : w \in WorkflowStates}

\* The assignments of the model: one with a name, every submission, and a
\* rubric or none; one without a name.
Assignments ==
    {Assignment(Some(<<"H", "W", ":", " ", "1">>), Absent, submission, FALSE) : submission \in Submissions}
        \cup {Assignment(Some(<<"H", "W", ":", " ", "1">>), Absent, Submission("object", Some("graded")), TRUE)}
        \cup {Assignment(Absent, Absent, submission, FALSE) :
                 submission \in {Submission("missing", Absent),
                                 Submission("object", Some("pending_review"))}}

\* The files under submission/ that the student and the coding agent
\* write, and what they hold.
SubmissionFiles == {<<"d", "r", "a", "f", "t", ".", "m", "d">>, <<"a", "i", "_", "c", "h", "e", "c", "k", ".", "j", "s", "o", "n">>}
MaxText == 0
Texts == 0..MaxText
MaxTime == 2
Times == 1..MaxTime

InitAssignmentData ==
    /\ NoDirectory
    /\ sync = NoSync
    /\ call = NoCall
    /\ data = NoFiles
    /\ cli = NoCli

\* A sync saves an assignment.
SaveAssignmentData ==
    \E assignment \in Assignments, now \in Times :
        LET saved == save_assignment_data(data, assignment, <<"C">>, now) IN
        /\ data' = saved.stored
        /\ call' = Returned(Pending("save_assignment_data", assignment), saved.metadata)
        /\ UNCHANGED <<dirExists, md, cache, last, sync, cli>>

\* The student or the coding agent writes a file under submission/ of an
\* assignment that has been synced.
WriteSubmissionFile ==
    \E path \in DOMAIN data, f \in SubmissionFiles, text \in Texts :
        /\ Len(path) = 2
        /\ data' = Write(data, <<path[1], <<"s", "u", "b", "m", "i", "s", "s", "i", "o", "n">>, f>>, text)
        /\ data' # data
        /\ call' = NoCall
        /\ UNCHANGED <<dirExists, md, cache, last, sync, cli>>

NextAssignmentData == SaveAssignmentData \/ WriteSubmissionFile

SpecAssignmentData == InitAssignmentData /\ [][NextAssignmentData]_vars

IsMetadataPath(path) == Len(path) = 2 /\ path[2] = <<"a", "s", "s", "i", "g", "n", "m", "e", "n", "t", ".", "j", "s", "o", "n">>

\* C21: in every assignment.json, has_submitted is true exactly when
\* workflow_state is submitted, graded or pending_review, and is_graded
\* exactly when it is graded; an assignment with no submission object or a
\* null one is recorded as unsubmitted with both flags false.
C21_FlagsFollowWorkflowState ==
    /\ \A path \in DOMAIN data :
           IsMetadataPath(path) =>
               /\ data[path].has_submitted
                      <=> data[path].workflow_state \in {"submitted", "graded", "pending_review"}
               /\ data[path].is_graded <=> data[path].workflow_state = "graded"
               /\ data[path].is_graded => data[path].has_submitted
    /\ (call.fn = "save_assignment_data" /\ call.arg.submission.kind \in {"missing", "null"})
           => /\ call.ret[1].workflow_state = "unsubmitted"
              /\ ~call.ret[1].has_submitted
              /\ ~call.ret[1].is_graded

C21_Witness ==
    /\ \E path \in DOMAIN data :
           /\ IsMetadataPath(path)
           /\ data[path].workflow_state = "pending_review"
           /\ data[path].has_submitted
           /\ ~data[path].is_graded
    /\ call.fn = "save_assignment_data"
    /\ call.arg.submission.kind = "null"
    /\ call.ret[1].workflow_state = "unsubmitted"

IsSubmissionPath(path) == Len(path) = 3 /\ path[2] = <<"s", "u", "b", "m", "i", "s", "s", "i", "o", "n">>

\* C22: a sync leaves every file under submission/ as it is:
\* save_assignment_data writes only assignment.json, requirements.md and
\* rubric.md of the assignment's directory, and the assignment.json it
\* leaves is the metadata of the fetched record, with nothing of the file
\* that was there before.
C22_SyncKeepsSubmissionFiles ==
    [][call'.fn = "save_assignment_data" =>
          LET dir == AssignmentDir(call'.arg) IN
          /\ \A path \in DOMAIN data :
                 /\ path \in DOMAIN data'
                 /\ (data'[path] # data[path] =>
                        path \in {<<dir, <<"a", "s", "s", "i", "g", "n", "m", "e", "n", "t", ".", "j", "s", "o", "n">>>>, <<dir, <<"r", "e", "q", "u", "i", "r", "e", "m", "e", "n", "t", "s", ".", "m", "d">>>>,
                                  <<dir, <<"r", "u", "b", "r", "i", "c", ".", "m", "d">>>>})
          /\ \A path \in DOMAIN data' \ DOMAIN data :
                 path \in {<<dir, <<"a", "s", "s", "i", "g", "n", "m", "e", "n", "t", ".", "j", "s", "o", "n">>>>, <<dir, <<"r", "e", "q", "u", "i", "r", "e", "m", "e", "n", "t", "s", ".", "m", "d">>>>,
                           <<dir, <<"r", "u", "b", "r", "i", "c", ".", "m", "d">>>>}
          /\ data'[<<dir, <<"a", "s", "s", "i", "g", "n", "m", "e", "n", "t", ".", "j", "s", "o", "n">>>>] = call'.ret[1]
          /\ \E now \in Times :
                 call'.ret[1] = Metadata(call'.arg, <<"C">>, now)]_vars

C22_Witness ==
    /\ call.fn = "save_assignment_data"
    /\ \E path \in DOMAIN data :
           /\ IsSubmissionPath(path)
           /\ path[1] = AssignmentDir(call.arg)
           /\ path[3] = <<"d", "r", "a", "f", "t", ".", "m", "d">>
    /\ data[<<AssignmentDir(call.arg), <<"a", "s", "s", "i", "g", "n", "m", "e", "n", "t", ".", "j", "s", "o", "n">>>>].fetched_at = MaxTime

\* ================================ canvas_browser.py: save_course_data
\* A course as Canvas returns it: name, and syllabus_body (None: JSON null).
CourseRecord(name, syllabus_body) == [name |-> name, syllabus_body |-> syllabus_body]

\* The directory of the course under DATA_DIR.
CourseDir(course) == sanitize_filename(course.name)

\* What course_info.json and syllabus.md hold: the fields of the one, the
\* title and the text of the other.
CourseInfo(course, now) == [name |-> course.name, fetched_at |-> now]
Syllabus(course, syllabus_md) == [name |-> course.name, text |-> syllabus_md]

\* save_course_data(course, syllabus_md, course_dir): the files afterwards.
\* syllabus.md is written only for a syllabus that is not empty.
SavedCourse(stored, dir, course, syllabus_md, now) ==
    IF syllabus_md # <<>>
    THEN Write(Write(stored, <<dir, <<"c", "o", "u", "r", "s", "e", "_", "i", "n", "f", "o", ".", "j", "s", "o", "n">>>>, CourseInfo(course, now)),
               <<dir, <<"s", "y", "l", "l", "a", "b", "u", "s", ".", "m", "d">>>>, Syllabus(course, syllabus_md))
    ELSE Write(stored, <<dir, <<"c", "o", "u", "r", "s", "e", "_", "i", "n", "f", "o", ".", "j", "s", "o", "n">>>>, CourseInfo(course, now))

\* The step of the sync loop for a course: html_to_markdown of the
\* syllabus, then save_course_data.
save_course_data(stored, course, now) ==
    SavedCourse(stored, CourseDir(course), course,
                html_to_markdown(course.syllabus_body), now)

\* The courses of the model: one course under two spellings of its name
\* that give the same directory, with a syllabus, an empty one, or null;
\* and a second course.
CourseRecords ==
    {CourseRecord(name, syllabus_body) :
        name \in {<<"B", "i", "o", " ", "1", "0", "1">>, <<"B", "i", "o", ":", " ", "1", "0", "1">>},
        syllabus_body \in {Absent, Some(<<>>), Some(<<"<", "b", ">", "x", "<", "/", "b", ">">>), Some(<<"y">>)}}
        \cup {CourseRecord(<<"C", "h", "e", "m">>, syllabus_body) : syllabus_body \in {Absent, Some(<<"y">>)}}

InitCourseData ==
    /\ NoDirectory
    /\ sync = NoSync
    /\ call = NoCall
    /\ data = NoFiles
    /\ cli = NoCli

\* A sync saves a course.
SaveCourseData ==
    \E course \in CourseRecords, now \in Times :
        /\ data' = save_course_data(data, course, now)
        /\ call' = Returned(Pending("save_course_data", course), CourseInfo(course, now))
        /\ UNCHANGED <<dirExists, md, cache, last, sync, cli>>

NextCourseData == SaveCourseData

SpecCourseData == InitCourseData /\ [][NextCourseData]_vars

\* C23: after save_course_data, course_info.json and syllabus.md both are
\* those of the course just fetched: a syllabus.md in the directory has the
\* title and the text of that course, and there is none when that course
\* has no syllabus.
C23_CourseRecordIsWhole ==
    call.fn = "save_course_data" =>
        LET course == call.arg
            dir == CourseDir(course)
            syllabus_md == html_to_markdown(course.syllabus_body)
        IN /\ data[<<dir, <<"c", "o", "u", "r", "s", "e", "_", "i", "n", "f", "o", ".", "j", "s", "o", "n">>>>] = call.ret[1]
           /\ IF syllabus_md = <<>>
              THEN <<dir, <<"s", "y", "l", "l", "a", "b", "u", "s", ".", "m", "d">>>> \notin DOMAIN data
              ELSE /\ <<dir, <<"s", "y", "l", "l", "a", "b", "u", "s", ".", "m", "d">>>> \in DOMAIN data
                   /\ data[<<dir, <<"s", "y", "l", "l", "a", "b", "u", "s", ".", "m", "d">>>>] = Syllabus(course, syllabus_md)

\* ============================== canvas_browser.py: try_headless_sync
\* try_headless_sync begins with the saved session: verify_auth, then the
\* list of the courses; the loops that follow are those of the sync above.
InitHeadless ==
    /\ NoDirectory
    /\ call = NoCall
    /\ data = NoFiles
    /\ cli = NoCli
    /\ sync \in {[NoSync EXCEPT !.pc = "verify", !.courses = courses, !.auth = auth,
                                !.listing = listing, !.data_dir = data_dir] :
                    courses \in CourseLists(MaxCourses), auth \in BOOLEAN,
                    listing \in BOOLEAN, data_dir \in BOOLEAN}

\* return None
ReturnedNone(s) == [s EXCEPT !.pc = "done", !.ret = "None"]

\* api.verify_auth(): without a user the sync returns None.
VerifyAuth ==
    /\ sync.pc = "verify"
    /\ sync' = IF sync.auth THEN [sync EXCEPT !.pc = "list"] ELSE ReturnedNone(sync)
    /\ UNCHANGED <<dirExists, md, cache, last, call, data, cli>>

\* The courses are requested: when the request raises the sync returns
\* None, otherwise the loop over the courses begins.
FetchCourseList ==
    /\ sync.pc = "list"
    /\ sync' = IF sync.listing THEN NextCourse(sync) ELSE ReturnedNone(sync)
    /\ UNCHANGED <<dirExists, md, cache, last, call, data, cli>>

NextHeadless ==
    \/ VerifyAuth
    \/ FetchCourseList
    \/ SaveCourse
    \/ FetchAssignments
    \/ FetchModules
    \/ ProcessModule
    \/ FinishSync

SpecHeadless == InitHeadless /\ [][NextHeadless]_vars

NothingWritten ==
    /\ sync.saved_courses = {}
    /\ sync.saved_assignments = {}
    /\ sync.saved_modules = {}
    /\ ~sync.summary

\* C24: when the session is not accepted or the courses cannot be listed,
\* try_headless_sync returns None and has written no course, assignment,
\* module or summary file; it returns a list only with the summary written.
C24_NoneMeansNothingWritten ==
    /\ (sync.pc = "done" /\ (~sync.auth \/ ~sync.listing))
           => (sync.ret = "None" /\ NothingWritten)
    /\ sync.ret = "None" => NothingWritten
    /\ sync.ret = "list" => sync.summary

C24_Witness ==
    /\ sync.pc = "done"
    /\ sync.auth
    /\ ~sync.listing
    /\ sync.courses # <<>>
    /\ sync.ret = "None"

\* ============ main.py: main, run_sync; canvas_browser.py: main, save_session
\* The session file: what it holds ("": nothing yet) and its mode.
SessionPath == <<<<"s", "e", "s", "s", "i", "o", "n", ".", "j", "s", "o", "n">>>>
SessionFile(content, mode) == [content |-> content, mode |-> mode]

\* The mode of a file that open(path, "w") creates: 0666 without the bits
\* of the umask.
CreatedMode(umask) == IF umask = "077" THEN "600" ELSE "644"

\* clear_session(), and the unlink of "logout" in main.py.
clear_session(stored) == [p \in DOMAIN stored \ {SessionPath} |-> stored[p]]

\* The commands of the two programs. "" is the run without a command
\* (canvas_browser.py: the quick view); "menu" stands for the interactive
\* mode of main.py where it calls run_sync.
Commands(program) ==
    IF program = "main.py"
    THEN {"sync", "logout", "--help", "--wait", "menu"}
    ELSE {"sync", "logout", "where", "--help", ""}

\* A command is started. What the world will do: headless is what
\* try_headless_sync does ("list", "None" or "raises"), logged_in what
\* check_if_logged_in returns, login what wait_for_canvas_login returns,
\* syncing what sync_all_data and the quick view do ("ok" or "raises").
\* Only a saved session can be logged in already.
InitCli ==
    /\ NoDirectory
    /\ call = NoCall
    /\ sync = NoSync
    /\ data \in {NoFiles, Write(NoFiles, SessionPath, SessionFile("old", "600"))}
    /\ cli \in {[NoCli EXCEPT !.pc = "start", !.program = program, !.cmd = cmd,
                              !.force_browser = force_browser, !.headless = headless,
                              !.logged_in = logged_in, !.login = login,
                              !.syncing = syncing, !.umask = umask] :
                   program \in {"main.py", "canvas_browser.py"},
                   cmd \in {"sync", "logout", "where", "--help", "--wait", "menu", ""},
                   force_browser \in BOOLEAN, headless \in {"list", "None", "raises"},
                   logged_in \in BOOLEAN, login \in BOOLEAN,
                   syncing \in {"ok", "raises"}, umask \in {"022", "077"}}
    /\ cli.cmd \in Commands(cli.program)
    /\ cli.force_browser => cli.cmd = "menu"
    /\ cli.logged_in => SessionPath \in DOMAIN data

\* The program ends with an exit status.
Exits(c, status) == [c EXCEPT !.pc = "exited", !.exit = status]

\* An exception that nothing catches ends the program with status 1.
Raised(c) == Exits(c, 1)

RunSyncReturns_Checked(c, value) ==
    IF c.cmd = "sync"
    THEN [Exits(c, IF value = "True" THEN 0 ELSE 1) EXCEPT !.returned = value]
    ELSE [c EXCEPT !.pc = "menu", !.returned = value]

\* run_sync returns: the command "sync" of main.py drops the value and
\* returns 0; the interactive mode goes on.
RunSyncReturns(c, value) ==
    IF c.cmd = "sync"
    THEN [Exits(c, 0) EXCEPT !.returned = value]
    ELSE [c EXCEPT !.pc = "menu", !.returned = value]

\* The end of the browser part when it succeeds or the login times out:
\* run_sync returns True or False, main of canvas_browser.py 0 or 1.
BrowserEnds(c, ok) ==
    IF c.program = "main.py"
    THEN RunSyncReturns(c, IF ok THEN "True" ELSE "False")
    ELSE Exits(c, IF ok THEN 0 ELSE 1)

\* main: the commands that need no login end here.
Dispatch ==
    /\ cli.pc = "start"
    /\ IF cli.cmd = "logout"
       THEN /\ data' = clear_session(data)
            /\ cli' = Exits(cli, 0)
       ELSE /\ data' = data
            /\ cli' = IF cli.cmd \in {"where", "--help", "--wait"} THEN Exits(cli, 0)
                      ELSE IF cli.program = "main.py" THEN [cli EXCEPT !.pc = "run_sync"]
                      ELSE [cli EXCEPT !.pc = "browser"]
    /\ UNCHANGED <<dirExists, md, cache, last, call, sync>>

\* The call of try_headless_sync and what follows it.
AfterHeadless(c) ==
    IF c.headless = "list" THEN RunSyncReturns(c, "True")
    ELSE IF c.headless = "None" THEN [c EXCEPT !.pc = "browser"]
    ELSE Raised(c)

\* run_sync begins: the headless sync unless force_browser.
BeginRunSync ==
    /\ cli.pc = "run_sync"
    /\ cli' = IF cli.force_browser THEN [cli EXCEPT !.pc = "browser"]
              ELSE AfterHeadless([cli EXCEPT !.calls = Append(@, "try_headless_sync")])
    /\ UNCHANGED <<dirExists, md, cache, last, call, sync, data>>

AfterCheck_NoLogin(c) == [c EXCEPT !.pc = "sync"]

\* if not logged_in: ... else: ...
AfterCheck(c) == [c EXCEPT !.pc = IF c.logged_in THEN "sync" ELSE "login"]

\* The browser is launched with the saved session, if any, and
\* check_if_logged_in is called.
CheckLoggedIn ==
    /\ cli.pc = "browser"
    /\ cli' = AfterCheck([cli EXCEPT !.calls = Append(@, "check_if_logged_in")])
    /\ UNCHANGED <<dirExists, md, cache, last, call, sync, data>>

\* wait_for_canvas_login: a login that times out ends the run.
WaitForLogin ==
    /\ cli.pc = "login"
    /\ cli' = IF cli.login
              THEN [cli EXCEPT !.pc = "save_session",
                               !.calls = Append(@, "wait_for_canvas_login")]
              ELSE BrowserEnds([cli EXCEPT !.calls = Append(@, "wait_for_canvas_login")],
                               FALSE)
    /\ UNCHANGED <<dirExists, md, cache, last, call, sync, data>>

\* save_session, open(SESSION_FILE, "w"): a new file gets the mode that
\* the umask leaves, a file that is there keeps its mode and is emptied.
Opened(stored, umask) ==
    Write(stored, SessionPath,
          SessionFile("", IF SessionPath \in DOMAIN stored
                          THEN stored[SessionPath].mode
                          ELSE CreatedMode(umask)))

OpenSessionFile ==
    /\ cli.pc = "save_session"
    /\ data' = Opened(data, cli.umask)
    /\ cli' = [cli EXCEPT !.pc = "dump", !.calls = Append(@, "save_session")]
    /\ UNCHANGED <<dirExists, md, cache, last, call, sync>>

\* save_session, json.dump(storage, f): the cookies are in the file.
DumpSession ==
    /\ cli.pc = "dump"
    /\ data' = Write(data, SessionPath, [data[SessionPath] EXCEPT !.content = "new"])
    /\ cli' = [cli EXCEPT !.pc = "chmod"]
    /\ UNCHANGED <<dirExists, md, cache, last, call, sync>>

\* save_session, SESSION_FILE.chmod(0o600).
ChmodSession ==
    /\ cli.pc = "chmod"
    /\ data' = Write(data, SessionPath, [data[SessionPath] EXCEPT !.mode = "600"])
    /\ cli' = [cli EXCEPT !.pc = "sync"]
    /\ UNCHANGED <<dirExists, md, cache, last, call, sync>>

\* What follows the call of sync_all_data or of the quick view.
AfterSync(c) == IF c.syncing = "ok" THEN BrowserEnds(c, TRUE) ELSE Raised(c)

\* sync_all_data, for run_sync and for "sync" of canvas_browser.py.
SyncAllData ==
    /\ cli.pc = "sync"
    /\ cli.cmd # ""
    /\ cli' = AfterSync([cli EXCEPT !.calls = Append(@, "sync_all_data")])
    /\ UNCHANGED <<dirExists, md, cache, last, call, sync, data>>

\* The quick view of canvas_browser.py without a command.
QuickView ==
    /\ cli.pc = "sync"
    /\ cli.cmd = ""
    /\ cli' = AfterSync([cli EXCEPT !.calls = Append(@, "quick_view")])
    /\ UNCHANGED <<dirExists, md, cache, last, call, sync, data>>

NextCli ==
    \/ Dispatch
    \/ BeginRunSync
    \/ CheckLoggedIn
    \/ WaitForLogin
    \/ OpenSessionFile
    \/ DumpSession
    \/ ChmodSession
    \/ SyncAllData
    \/ QuickView

SpecCli == InitCli /\ [][NextCli]_vars

Called(name) == \E i \in 1..Len(cli.calls) : cli.calls[i] = name

\* Every call of later comes after a call of earlier.
Before(earlier, later) ==
    \A j \in 1..Len(cli.calls) :
        cli.calls[j] = later => \E i \in 1..(j - 1) : cli.calls[i] = earlier

LoginTimedOut == Called("wait_for_canvas_login") /\ ~cli.login

SyncFailed ==
    \/ Called("try_headless_sync") /\ cli.headless = "raises"
    \/ (Called("sync_all_data") \/ Called("quick_view")) /\ cli.syncing = "raises"

\* C25: a command (sync, logout, where, --help, the quick view) exits with
\* status 1 when the login or the sync fails and with status 0 otherwise;
\* a sync whose login times out does not exit with status 0.
C25_ExitStatusTellsFailure ==
    (cli.pc = "exited" /\ cli.cmd # "menu") =>
        /\ cli.exit \in {0, 1}
        /\ cli.exit = 1 <=> (LoginTimedOut \/ SyncFailed)

\* C26: whenever the session file exists and holds the cookies, its mode
\* is 0600, in every state during and after save_session.
C26_SessionFileOwnerOnly ==
    (SessionPath \in DOMAIN data /\ data[SessionPath].content # "")
        => data[SessionPath].mode = "600"

InRunSync == cli.program = "main.py" /\ cli.cmd \in {"sync", "menu"}

\* C27: run_sync calls try_headless_sync first unless force_browser; it
\* launches the browser only when force_browser is set or the headless sync
\* returned None; sync_all_data is called only after check_if_logged_in or
\* wait_for_canvas_login returned true; save_session only after a fresh
\* login; after a login that times out run_sync has returned False and has
\* called neither sync_all_data nor save_session.
C27_RunSyncOrder ==
    InRunSync =>
        /\ Called("try_headless_sync")
               => (~cli.force_browser /\ cli.calls[1] = "try_headless_sync")
        /\ (cli.calls # <<>> /\ ~cli.force_browser) => cli.calls[1] = "try_headless_sync"
        /\ Called("check_if_logged_in") => (cli.force_browser \/ cli.headless = "None")
        /\ Called("sync_all_data")
               => \/ cli.logged_in /\ Before("check_if_logged_in", "sync_all_data")
                  \/ cli.login /\ Before("wait_for_canvas_login", "sync_all_data")
        /\ Called("save_session")
               => (~cli.logged_in /\ cli.login /\ Before("wait_for_canvas_login", "save_session"))
        /\ LoginTimedOut
               => (cli.returned = "False" /\ ~Called("sync_all_data") /\ ~Called("save_session"))

C27_Witness ==
    /\ InRunSync
    /\ Called("try_headless_sync")
    /\ LoginTimedOut
    /\ cli.returned = "False"

\* ---------------------------------------------- show_work_menu: humanize
HumanizedNames == {"final_humanized.md", "draft_humanized.md"}

\* C28: when a check-and-humanize step of show_work_menu replaces the
\* humanized file with another text and the cache file of that humanized
\* file holds a document afterwards, the step wrote that document (it is the
\* result of re-checking the new text): a re-check without a score does not
\* leave the score of the previous humanized text in place.
C28_HumanizedScoreIsCurrent ==
    [][\A f \in HumanizedNames :
          (/\ last'.op = "show_work_menu"
           /\ f \in last'.wrote
           /\ md'[f] # md[f]
           /\ cache'[HumanizedCacheName(f)].state = "json")
              => HumanizedCacheName(f) \in last'.wrote]_vars

\* ================================= ai_detector.py: run_ai_detection(services)
\* The services a caller can name: zerogpt has an API check, scribbr a
\* browser check, gptzero has check functions in the module but is in
\* neither table of run_ai_detection.
ServiceNames == {"zerogpt", "scribbr", "gptzero"}
api_services == {"zerogpt"}
browser_only_services == {"scribbr"}

MaxServices == 2
ServiceLists == UNION {[1..n -> ServiceNames] : n \in 0..MaxServices}

\* What a check function does: it returns an entry or raises.
CheckOutcomes ==
    {[raises |-> FALSE, score |-> s, status |-> "success"] : s \in Scores}
        \cup {[raises |-> FALSE, score |-> None, status |-> "could not parse result"],
              [raises |-> TRUE, score |-> None, status |-> ""]}

\* What the browser does: it does not start, or it runs the check, and
\* page.close() may raise after the check.
BrowserOutcomes == {"no browser", "runs", "close raises"}

\* except Exception as e: {"score": None, "status": f"error: ..."}
ErrorEntry(status) == [score |-> None, status |-> status]

ServiceEntry(outcome) ==
    IF outcome.raises THEN ErrorEntry("error") ELSE [score |-> outcome.score, status |-> outcome.status]

\* The entry of a browser service: the entry of its check when the browser
\* runs (an exception of page.close() comes after the entry is stored), a
\* browser error when it does not start.
BrowserEntry(browser, outcome) ==
    IF browser = "no browser" THEN ErrorEntry("browser error") ELSE ServiceEntry(outcome)

Named(services, table) == {services[i] : i \in 1..Len(services)} \cap table

\* results["services"] of run_ai_detection(text, services) for a text that
\* is a string: one entry per named service of either table.
DetectedServices(services, api, browser, scribbr) ==
    [s \in Named(services, api_services) \cup Named(services, browser_only_services) |->
        IF s \in api_services THEN ServiceEntry(api) ELSE BrowserEntry(browser, scribbr)]

DetectArgs ==
    {[services |-> services, api |-> api, browser |-> browser, scribbr |-> scribbr] :
        services \in ServiceLists, api \in CheckOutcomes,
        browser \in BrowserOutcomes, scribbr \in CheckOutcomes}

InitDetect ==
    /\ NoDirectory
    /\ sync = NoSync
    /\ data = NoFiles
    /\ cli = NoCli
    /\ call \in {Pending("run_ai_detection", arg) : arg \in DetectArgs}

RunAiDetection ==
    /\ call.fn = "run_ai_detection"
    /\ call.ret = <<>>
    /\ call' = Returned(call, Value(DetectedServices(call.arg.services, call.arg.api,
                                                     call.arg.browser, call.arg.scribbr)))
    /\ UNCHANGED <<dirExists, md, cache, last, sync, data, cli>>

NextDetect == RunAiDetection

SpecDetect == InitDetect /\ [][NextDetect]_vars

DetectDone == call.fn = "run_ai_detection" /\ call.ret # <<>>

\* C29: run_ai_detection does not raise, and the services map it returns
\* has an entry for every service named in the services argument, each with
\* a score that is a number or None.
C29_EveryNamedServiceHasEntry ==
    DetectDone =>
        /\ call.ret[1].raised = <<>>
        /\ \A i \in 1..Len(call.arg.services) :
              /\ call.arg.services[i] \in DOMAIN call.ret[1].value
              /\ call.ret[1].value[call.arg.services[i]].score \in Scores \cup {None}

\* ============== canvas_browser.py: the assignments of a course in a sync
\* A due_at text of Canvas, by what datetime.fromisoformat makes of it
\* after "Z" is replaced by "+00:00": a time with an offset ("aware"), a
\* time without one ("naive"), or a ValueError ("bad"). at is the instant,
\* in days.
DueText(form, at) == [form |-> form, at |-> at]

\* The days of the model, now, and days_ahead.
MaxDay == 4
SyncNow == 1
DaysAhead == 2

\* is_upcoming: no due_at is not upcoming; a text that does not parse
\* raises ValueError and a naive time raises TypeError when compared with
\* now.astimezone(), and the bare except leaves is_upcoming False.
is_upcoming(due_at, now, days_ahead) ==
    IF due_at = Absent THEN FALSE
    ELSE IF due_at[1].form # "aware" THEN FALSE
    ELSE now <= due_at[1].at /\ due_at[1].at <= now + days_ahead

\* The entry appended to all_upcoming.
UpcomingEntry(assignment, course_name) ==
    [course |-> course_name, name |-> assignment.name, due_at |-> assignment.due_at[1].at,
     path |-> AssignmentDir(assignment)]

\* for assignment in assignments: the files after saving the first k.
RECURSIVE SavedFirst(_, _, _, _, _)
SavedFirst(stored, assignments, k, course_name, now) ==
    IF k = 0 THEN stored
    ELSE save_assignment_data(SavedFirst(stored, assignments, k - 1, course_name, now),
                              assignments[k], course_name, now).stored

\* for assignment in assignments: all_upcoming after the loop.
RECURSIVE Upcoming(_, _, _, _)
Upcoming(assignments, course_name, now, days_ahead) ==
    IF assignments = <<>> THEN <<>>
    ELSE (IF is_upcoming(Head(assignments).due_at, now, days_ahead)
          THEN <<UpcomingEntry(Head(assignments), course_name)>> ELSE <<>>)
         \o Upcoming(Tail(assignments), course_name, now, days_ahead)

\* list.sort(key=lambda x: x["due_at"]): stable, ascending.
EarlierIn(x, sorted) == Cardinality({i \in 1..Len(sorted) : sorted[i].due_at < x.due_at})
InsertByDue(x, sorted, k) == SubSeq(sorted, 1, k) \o <<x>> \o SubSeq(sorted, k + 1, Len(sorted))
RECURSIVE SortByDue(_)
SortByDue(entries) ==
    IF entries = <<>> THEN <<>>
    ELSE InsertByDue(Head(entries), SortByDue(Tail(entries)),
                     EarlierIn(Head(entries), SortByDue(Tail(entries))))

\* The assignments of the model: two names that sanitize_filename maps to
\* the same directory, and every kind of due date.
DueDates ==
    {Absent, Some(DueText("bad", 0)), Some(DueText("naive", SyncNow + 1))}
        \cup {Some(DueText("aware", at)) : at \in 0..MaxDay}
SyncedAssignments ==
    {Assignment(Some(name), due_at, Submission("missing", Absent), FALSE) :
        name \in {<<"H", "W", ":", " ", "1">>, <<"H", "W", " ", "1">>}, due_at \in DueDates}
MaxAssignments == 2
AssignmentLists == UNION {[1..n -> SyncedAssignments] : n \in 0..MaxAssignments}

InitUpcoming ==
    /\ NoDirectory
    /\ sync = NoSync
    /\ data = NoFiles
    /\ cli = NoCli
    /\ call \in {Pending("try_headless_sync", assignments) : assignments \in AssignmentLists}

\* The loop over the assignments of one course, the sort, and the return
\* of all_upcoming (which upcoming_assignments.json holds as well).
SyncAssignments ==
    /\ call.fn = "try_headless_sync"
    /\ call.ret = <<>>
    /\ data' = SavedFirst(data, call.arg, Len(call.arg), <<"A">>, SyncNow)
    /\ call' = Returned(call, SortByDue(Upcoming(call.arg, <<"A">>, SyncNow, DaysAhead)))
    /\ UNCHANGED <<dirExists, md, cache, last, sync, cli>>

NextUpcoming == SyncAssignments

SpecUpcoming == InitUpcoming /\ [][NextUpcoming]_vars

UpcomingDone == call.fn = "try_headless_sync" /\ call.ret # <<>>

\* The due date parses, whether or not it carries an offset.
Parseable(due_at) == due_at # Absent /\ due_at[1].form # "bad"

InWindow(due_at) == SyncNow <= due_at[1].at /\ due_at[1].at <= SyncNow + DaysAhead

IsSaved(assignment) ==
    /\ <<AssignmentDir(assignment), <<"a", "s", "s", "i", "g", "n", "m", "e", "n", "t", ".", "j", "s", "o", "n">>>> \in DOMAIN data
    /\ data[<<AssignmentDir(assignment), <<"a", "s", "s", "i", "g", "n", "m", "e", "n", "t", ".", "j", "s", "o", "n">>>>].name = assignment.name
    /\ data[<<AssignmentDir(assignment), <<"a", "s", "s", "i", "g", "n", "m", "e", "n", "t", ".", "j", "s", "o", "n">>>>].due_at = assignment.due_at

\* The assignments whose due date parses and lies in the window.
Due(assignments) ==
    {i \in 1..Len(assignments) :
        Parseable(assignments[i].due_at) /\ InWindow(assignments[i].due_at)}

Listed(assignment) ==
    /\ assignment.due_at # Absent
    /\ \E j \in 1..Len(call.ret[1]) :
          /\ call.ret[1][j].name = assignment.name
          /\ call.ret[1][j].due_at = assignment.due_at[1].at

\* C30: after the sync of a course every assignment returned for it is on
\* disk, and the returned list holds exactly the assignments whose due date
\* parses and lies between now and now + days_ahead, one entry each and
\* no other entry, in ascending order of due date.
C30_AllSavedUpcomingListed ==
    UpcomingDone =>
        /\ \A i \in 1..Len(call.arg) : IsSaved(call.arg[i])
        /\ \A i \in Due(call.arg) : Listed(call.arg[i])
        /\ Len(call.ret[1]) = Cardinality(Due(call.arg))
        /\ \A j \in 1..(Len(call.ret[1]) - 1) : call.ret[1][j].due_at <= call.ret[1][j + 1].due_at

====
